---- MODULE Spec2Model ----
(***************************************************************************)
(* Chaos: compiler-toolchain / Conan-profile identification and selection. *)
(*                                                                         *)
(* A Python str is modelled as a sequence of atoms: the separators "_",    *)
(* "-" and "." are atoms of their own, and every maximal run of other      *)
(* characters is one atom (a word).  "x86-64_GCC-10_Ubuntu_APT.cmake" is   *)
(*   <<"x86","-","64","_","GCC","-","10","_","Ubuntu","_","APT",".",       *)
(*     "cmake">>.                                                          *)
(* split, splitext, removesuffix, endswith and + work on these sequences   *)
(* as the str methods work on the characters.                              *)
(***************************************************************************)
EXTENDS Integers, Sequences, FiniteSets, TLC

\* ------------------------------------------------------------------ bounds
\* The longest stem, in "_"-separated tokens, of a generated filename.
MaxTokens == 6

\* The rejected inputs of one interactive selection that are counted.
MaxRetries == 3

\* The most toolchains a listing is sorted for.
MaxListed == 3

\* -------------------------------------------------------------- exceptions
ValueError == "ValueError"

TypeError == "TypeError"

NoError == "none"

\* ----------------------------------------------------------------- strings
\* str.split(sep): the pieces between the occurrences of sep (at least one).
RECURSIVE split(_, _)
split(s, sep) ==
    LET Cut(str, i) ==
            <<SubSeq(str, 1, i - 1)>> \o split(SubSeq(str, i + 1, Len(str)), sep)
        Pieces(str) ==
            IF \A i \in 1..Len(str) : str[i] /= sep
            THEN <<str>>
            ELSE CHOOSE r \in {Cut(str, i) : i \in
                     {CHOOSE k \in 1..Len(str) :
                         str[k] = sep /\ \A j \in 1..(k - 1) : str[j] /= sep}} : TRUE
    IN  CHOOSE r \in {Pieces(str) : str \in {s}} : TRUE

\* str.endswith(suffix)
endswith(s, suffix) ==
    /\ Len(suffix) <= Len(s)
    /\ SubSeq(s, Len(s) - Len(suffix) + 1, Len(s)) = suffix

\* str.removesuffix(suffix)
removesuffix(s, suffix) ==
    LET Strip(str, end) ==
            IF end /= <<>> /\ endswith(str, end)
            THEN SubSeq(str, 1, Len(str) - Len(end))
            ELSE str
    IN  CHOOSE r \in {Strip(str, end) : str \in {s}, end \in {suffix}} : TRUE

\* os.path.splitext(p)[-1]: the extension from the last dot on, empty when
\* there is no dot or only leading dots precede it.
splitext_ext(p) ==
    LET From(last) ==
            IF \A j \in 1..(last - 1) : p[j] = "."
            THEN <<>>
            ELSE SubSeq(p, last, Len(p))
        Ext(dots) ==
            IF dots = {} THEN <<>>
            ELSE CHOOSE r \in {From(last) : last \in
                     {CHOOSE i \in dots : \A j \in dots : j <= i}} : TRUE
    IN  CHOOSE r \in {Ext(dots) : dots \in {{i \in 1..Len(p) : p[i] = "."}}} : TRUE

\* ------------------------------------------------------------------- enums
\* An enum is a function from member names to value strings.
BuildTypeValues ==
    [kDebug |-> <<"Debug">>, kRelease |-> <<"Release">>]

ArchitectureValues ==
    [kx86_64 |-> <<"x86", "-", "64">>, kARM32 |-> <<"ARM32">>, kARM64 |-> <<"ARM64">>]

CompilerTypeValues ==
    [kGCC |-> <<"GCC">>, kClang |-> <<"Clang">>,
     kAppleClang |-> <<"AppleClang">>, kMSVC |-> <<"MSVC">>]

HostSystemValues ==
    [kMacOS |-> <<"macOS">>, kUbuntu |-> <<"Ubuntu">>, kWindows |-> <<"Windows">>]

InstallationSourceValues ==
    [kHomebrew |-> <<"Homebrew">>, kAPT |-> <<"APT">>, kXcode |-> <<"Xcode">>,
     kARM |-> <<"ARM">>, kVisualStudio |-> <<"VisualStudio">>]

\* EnumClass(value): the member whose value is the given string; ValueError
\* when no member has it.
EnumLookup(values, s) ==
    IF \E m \in DOMAIN values : values[m] = s
    THEN CHOOSE m \in DOMAIN values : values[m] = s
    ELSE ValueError

BuildType(s) == EnumLookup(BuildTypeValues, s)

Architecture(s) == EnumLookup(ArchitectureValues, s)

CompilerType(s) == EnumLookup(CompilerTypeValues, s)

HostSystem(s) == EnumLookup(HostSystemValues, s)

InstallationSource(s) == EnumLookup(InstallationSourceValues, s)

\* __eq__ of the four enums that override it: compares the value strings.
ArchitectureEq(a, b) == ArchitectureValues[a] = ArchitectureValues[b]

CompilerTypeEq(a, b) == CompilerTypeValues[a] = CompilerTypeValues[b]

HostSystemEq(a, b) == HostSystemValues[a] = HostSystemValues[b]

InstallationSourceEq(a, b) == InstallationSourceValues[a] = InstallationSourceValues[b]

\* ---------------------------------------------------------------- Compiler
\* The decimal words of the model and the number int() gives for each.
DecimalWords ==
    [w \in {"0", "1", "10", "17", "017"} |->
        CASE w = "0" -> 0
          [] w = "1" -> 1
          [] w = "10" -> 10
          [] OTHER -> 17]

\* int(s) succeeds on a string that is one decimal word.
IsInt(s) == Len(s) = 1 /\ s[1] \in DOMAIN DecimalWords

int(s) == DecimalWords[s[1]]

\* A slip in the token count: more than two tokens pass, the first two
\* being read.
CompilerAtLeastTwo(description) ==
    LET Construct(tokens) ==
            IF Len(tokens) < 2 THEN [err |-> ValueError]
            ELSE IF CompilerType(tokens[1]) = ValueError THEN [err |-> ValueError]
            ELSE IF ~IsInt(tokens[2]) THEN [err |-> ValueError]
            ELSE [err |-> NoError,
                  compilerType |-> CompilerType(tokens[1]),
                  version |-> int(tokens[2])]
    IN  CHOOSE self \in {Construct(tokens) :
                            tokens \in {split(description, "-")}} : TRUE

\* Compiler.__init__(description)
Compiler(description) ==
    LET Construct(tokens) ==
            IF Len(tokens) /= 2 THEN [err |-> ValueError]
            ELSE IF CompilerType(tokens[1]) = ValueError THEN [err |-> ValueError]
            ELSE IF ~IsInt(tokens[2]) THEN [err |-> ValueError]
            ELSE [err |-> NoError,
                  compilerType |-> CompilerType(tokens[1]),
                  version |-> int(tokens[2])]
    IN  CHOOSE self \in {Construct(tokens) :
                            tokens \in {split(description, "-")}} : TRUE

\* Compiler.__eq__
CompilerEq(a, b) ==
    CompilerTypeEq(a.compilerType, b.compilerType) /\ a.version = b.version

\* --------------------------------------------------- BuildSystemIdentifier
\* BuildSystemIdentifier.__init__
BuildSystemIdentifier(architecture, compiler, hostSystem, installationSource) ==
    LET Construct(c) ==
            IF \/ Architecture(architecture) = ValueError
               \/ c.err /= NoError
               \/ HostSystem(hostSystem) = ValueError
               \/ InstallationSource(installationSource) = ValueError
            THEN [err |-> ValueError]
            ELSE [err |-> NoError,
                  architecture |-> Architecture(architecture),
                  compiler |-> [compilerType |-> c.compilerType,
                                version |-> c.version],
                  hostSystem |-> HostSystem(hostSystem),
                  installationSource |-> InstallationSource(installationSource)]
    IN  CHOOSE self \in {Construct(c) : c \in {Compiler(compiler)}} : TRUE

\* The four attributes of a constructed identifier.
Fields(id) ==
    [architecture |-> id.architecture, compiler |-> id.compiler,
     hostSystem |-> id.hostSystem, installationSource |-> id.installationSource]

\* BuildSystemIdentifier.__eq__
IdentifierEq(a, b) ==
    /\ ArchitectureEq(a.architecture, b.architecture)
    /\ CompilerEq(a.compiler, b.compiler)
    /\ HostSystemEq(a.hostSystem, b.hostSystem)
    /\ InstallationSourceEq(a.installationSource, b.installationSource)

\* A slip in compatible: the architecture is left out.
compatible_host_only(self, hostSystem, architecture) ==
    HostSystemEq(self.hostSystem, hostSystem)

\* BuildSystemIdentifier.compatible
compatible(self, hostSystem, architecture) ==
    /\ HostSystemEq(self.hostSystem, hostSystem)
    /\ ArchitectureEq(self.architecture, architecture)

\* ------------------------------------------------------------- descriptors
\* The tokens both descriptors parse: the filename without its extension,
\* split on "_".
StemTokens(filename) ==
    split(removesuffix(filename, splitext_ext(filename)), "_")

\* A slip in the token count: more than four tokens pass, the first four
\* being read.
ToolchainAtLeastFour(filename) ==
    LET Construct(tokens) ==
            IF Len(tokens) < 4 THEN [err |-> ValueError]
            ELSE LET Descriptor(id) ==
                         IF id.err /= NoError THEN [err |-> ValueError]
                         ELSE [err |-> NoError, filename |-> filename,
                               identifier |-> Fields(id)]
                 IN  CHOOSE self \in {Descriptor(id) : id \in
                         {BuildSystemIdentifier(tokens[1], tokens[2], tokens[3],
                                                tokens[4])}} : TRUE
    IN  CHOOSE self \in {Construct(tokens) : tokens \in {StemTokens(filename)}} : TRUE

\* Toolchain.__init__(filename)
Toolchain(filename) ==
    LET Construct(tokens) ==
            IF Len(tokens) /= 4 THEN [err |-> ValueError]
            ELSE LET Descriptor(id) ==
                         IF id.err /= NoError THEN [err |-> ValueError]
                         ELSE [err |-> NoError, filename |-> filename,
                               identifier |-> Fields(id)]
                 IN  CHOOSE self \in {Descriptor(id) : id \in
                         {BuildSystemIdentifier(tokens[1], tokens[2], tokens[3],
                                                tokens[4])}} : TRUE
    IN  CHOOSE self \in {Construct(tokens) : tokens \in {StemTokens(filename)}} : TRUE

\* ConanProfile.__init__(filename)
ConanProfile(filename) ==
    LET Construct(tokens) ==
            IF Len(tokens) /= 5 THEN [err |-> ValueError]
            ELSE LET Descriptor(id) ==
                         IF id.err /= NoError THEN [err |-> ValueError]
                         ELSE IF BuildType(tokens[5]) = ValueError
                         THEN [err |-> ValueError]
                         ELSE [err |-> NoError, filename |-> filename,
                               identifier |-> Fields(id),
                               buildType |-> BuildType(tokens[5])]
                 IN  CHOOSE self \in {Descriptor(id) : id \in
                         {BuildSystemIdentifier(tokens[1], tokens[2], tokens[3],
                                                tokens[4])}} : TRUE
    IN  CHOOSE self \in {Construct(tokens) : tokens \in {StemTokens(filename)}} : TRUE

\* ----------------------------------------------------------------- hashing
\* A class that defines __eq__ and no __hash__ has __hash__ = None: hash()
\* of its instances raises TypeError.  Architecture, CompilerType, Compiler,
\* HostSystem and InstallationSource all do; a class's hash is its value
\* otherwise.
ArchitectureHash(a) == [err |-> TypeError]

CompilerHash(c) == [err |-> TypeError]

HostSystemHash(h) == [err |-> TypeError]

InstallationSourceHash(s) == [err |-> TypeError]

\* BuildSystemIdentifier.__hash__: the hash of the tuple of the four
\* attributes, which hashes each of them.
IdentifierHash(id) ==
    LET parts == <<ArchitectureHash(id.architecture), CompilerHash(id.compiler),
                   HostSystemHash(id.hostSystem),
                   InstallationSourceHash(id.installationSource)>>
    IN  IF \E i \in 1..4 : parts[i].err /= NoError
        THEN [err |-> TypeError]
        ELSE [err |-> NoError, value |-> [i \in 1..4 |-> parts[i].value]]

\* ------------------------------------------------------------- file names
\* str + str
Join(tokens, sep) ==
    LET RECURSIVE J(_)
        J(n) == IF n = 0 THEN <<>>
                ELSE IF n = 1 THEN tokens[1]
                ELSE J(n - 1) \o <<sep>> \o tokens[n]
    IN  J(Len(tokens))

CMakeSuffix == <<".", "cmake">>

ProfileSuffix == <<".", "conanprofile">>

DebugProfileSuffix == <<"_", "Debug", ".", "conanprofile">>

ReleaseProfileSuffix == <<"_", "Release", ".", "conanprofile">>

\* Toolchain names as a user or a directory gives them.
NameGCC == <<"x86", "-", "64", "_", "GCC", "-", "10", "_", "Ubuntu", "_", "APT">>

NameClang == <<"x86", "-", "64", "_", "Clang", "-", "17", "_", "Ubuntu", "_", "APT">>

NameStdlib ==
    <<"x86", "-", "64", "_", "Clang", "-", "17", "_", "libc++", "_", "Ubuntu", "_", "APT">>

NameShort == <<"x86", "-", "64", "_", "GCC", "-", "10", "_", "Ubuntu">>

\* ------------------------------------------------------------ pointer files
kCurrentToolchainFile == <<"CurrentToolchain", ".", "cmake">>

kCurrentConanBuildProfileDebug == <<"CurrentBuildProfileDebug", ".", "conanprofile">>

kCurrentConanBuildProfileRelease == <<"CurrentBuildProfileRelease", ".", "conanprofile">>

kCurrentConanHostProfileDebug == <<"CurrentHostProfileDebug", ".", "conanprofile">>

kCurrentConanHostProfileRelease == <<"CurrentHostProfileRelease", ".", "conanprofile">>

PointerFiles ==
    {kCurrentToolchainFile, kCurrentConanBuildProfileDebug,
     kCurrentConanBuildProfileRelease, kCurrentConanHostProfileDebug,
     kCurrentConanHostProfileRelease}

\* What a name of the project directory holds: nothing, or a symbolic link.
Absent == [absent |-> TRUE]

\* A default argument left out by the caller.
None == [none |-> TRUE]

VARIABLES
    host_system,    \* the manager's host system
    architecture,   \* the manager's architecture
    conan_v2,       \* is_conan_v2_installed()
    folders,        \* [toolchains, profiles]: the filenames in the two folders
    links,          \* pointer file name -> Absent or the link's target path
    op,             \* the operation running, or the last one that ran
    pc,             \* "idle", or where the running operation stands
    step,           \* the statement of apply / clean_all to run next (1..10)
    call,           \* the arguments of the apply_compiler_toolchain call of the
                    \* operation (the names of a CI selection that made none)
    outcome,        \* how the last operation ended: "none", "ok", an exception
    failed_at,      \* the statement a filesystem error was raised at, or 0
    previous,       \* the arguments of the apply that had just succeeded when
                    \* the apply in `call` began, if one had
    locals,         \* select_compiler_toolchain: its catalogs
    parsed,         \* descriptor construction: the filename and its result
    query           \* a call that answers a question (compatible() on the parsed
                    \* identifier, a fetch on a folder) and its answer

vars ==
    <<host_system, architecture, conan_v2, folders, links, op, pc, step, call,
      outcome, failed_at, previous, locals, parsed, query>>

\* CompilerToolchainManager.cmake_toolchains_folder_name
cmake_toolchains_folder_name == "Toolchains"

\* CompilerToolchainManager.conan_profiles_folder_name
conan_profiles_folder_name == IF conan_v2 THEN "Profiles2" ELSE "Profiles"

\* Path(folder) / filename
Path(folder, filename) == [folder |-> folder, filename |-> filename]

\* ---------------------------------------------------- filesystem primitives
\* A slip in the test: os.path.exists, which follows the link and so finds
\* nothing under a name whose link dangles.
exists_following(fs, file) ==
    /\ fs[file] /= Absent
    /\ fs[file].filename \in
           (IF fs[file].folder = "Toolchains" THEN folders.toolchains
            ELSE folders.profiles)

\* os.path.lexists(file): the name exists, followed or not.
lexists(fs, file) == fs[file] /= Absent

\* os.remove(file)
os_remove(fs, file) == [fs EXCEPT ![file] = Absent]

\* remove_file_if_exist(file)
remove_file_if_exist(fs, file) ==
    IF lexists(fs, file) THEN os_remove(fs, file) ELSE fs

\* os.symlink(src, dst): dst must not exist; src need not.
os_symlink(fs, src, dst) ==
    IF lexists(fs, dst)
    THEN [err |-> "FileExistsError", fs |-> fs]
    ELSE [err |-> NoError, fs |-> [fs EXCEPT ![dst] = src]]

\* ---------------------------------------------------------------- apply
\* The two defaulted parameters of apply_compiler_toolchain.
host_profile_debug(c) ==
    IF c.host_profile_debug = None THEN c.build_profile_debug
    ELSE c.host_profile_debug

\* A slip in the second default: the Debug build profile is taken.
host_profile_release_from_debug(c) ==
    IF c.host_profile_release = None THEN c.build_profile_debug
    ELSE c.host_profile_release

host_profile_release(c) ==
    IF c.host_profile_release = None THEN c.build_profile_release
    ELSE c.host_profile_release

Remove(file) == [do |-> "remove", file |-> file]

Symlink(src, dst) == [do |-> "symlink", src |-> src, file |-> dst]

\* A slip in the links: the two build profiles change places.
ApplyStatementsSwapped(c) ==
    <<Remove(kCurrentToolchainFile),
      Remove(kCurrentConanBuildProfileDebug),
      Remove(kCurrentConanBuildProfileRelease),
      Remove(kCurrentConanHostProfileDebug),
      Remove(kCurrentConanHostProfileRelease),
      Symlink(Path(cmake_toolchains_folder_name, c.toolchain.filename),
              kCurrentToolchainFile),
      Symlink(Path(conan_profiles_folder_name, c.build_profile_release.filename),
              kCurrentConanBuildProfileDebug),
      Symlink(Path(conan_profiles_folder_name, c.build_profile_debug.filename),
              kCurrentConanBuildProfileRelease),
      Symlink(Path(conan_profiles_folder_name, host_profile_debug(c).filename),
              kCurrentConanHostProfileDebug),
      Symlink(Path(conan_profiles_folder_name, host_profile_release(c).filename),
              kCurrentConanHostProfileRelease)>>

\* Another order of the statements: each pointer is removed and linked in
\* turn.
ApplyStatementsInTurn(c) ==
    <<Remove(kCurrentToolchainFile),
      Symlink(Path(cmake_toolchains_folder_name, c.toolchain.filename),
              kCurrentToolchainFile),
      Remove(kCurrentConanBuildProfileDebug),
      Symlink(Path(conan_profiles_folder_name, c.build_profile_debug.filename),
              kCurrentConanBuildProfileDebug),
      Remove(kCurrentConanBuildProfileRelease),
      Symlink(Path(conan_profiles_folder_name, c.build_profile_release.filename),
              kCurrentConanBuildProfileRelease),
      Remove(kCurrentConanHostProfileDebug),
      Symlink(Path(conan_profiles_folder_name, host_profile_debug(c).filename),
              kCurrentConanHostProfileDebug),
      Remove(kCurrentConanHostProfileRelease),
      Symlink(Path(conan_profiles_folder_name, host_profile_release(c).filename),
              kCurrentConanHostProfileRelease)>>

\* The ten filesystem statements of apply_compiler_toolchain, in order.
ApplyStatements(c) ==
    <<Remove(kCurrentToolchainFile),
      Remove(kCurrentConanBuildProfileDebug),
      Remove(kCurrentConanBuildProfileRelease),
      Remove(kCurrentConanHostProfileDebug),
      Remove(kCurrentConanHostProfileRelease),
      Symlink(Path(cmake_toolchains_folder_name, c.toolchain.filename),
              kCurrentToolchainFile),
      Symlink(Path(conan_profiles_folder_name, c.build_profile_debug.filename),
              kCurrentConanBuildProfileDebug),
      Symlink(Path(conan_profiles_folder_name, c.build_profile_release.filename),
              kCurrentConanBuildProfileRelease),
      Symlink(Path(conan_profiles_folder_name, host_profile_debug(c).filename),
              kCurrentConanHostProfileDebug),
      Symlink(Path(conan_profiles_folder_name, host_profile_release(c).filename),
              kCurrentConanHostProfileRelease)>>

\* The pointer files in the order apply_compiler_toolchain handles them.
PointerOrder ==
    <<kCurrentToolchainFile, kCurrentConanBuildProfileDebug,
      kCurrentConanBuildProfileRelease, kCurrentConanHostProfileDebug,
      kCurrentConanHostProfileRelease>>

\* The link apply_compiler_toolchain(c) gives each pointer file.
Targets(c) ==
    [f \in PointerFiles |->
        IF f = kCurrentToolchainFile
        THEN Path(cmake_toolchains_folder_name, c.toolchain.filename)
        ELSE IF f = kCurrentConanBuildProfileDebug
        THEN Path(conan_profiles_folder_name, c.build_profile_debug.filename)
        ELSE IF f = kCurrentConanBuildProfileRelease
        THEN Path(conan_profiles_folder_name, c.build_profile_release.filename)
        ELSE IF f = kCurrentConanHostProfileDebug
        THEN Path(conan_profiles_folder_name, host_profile_debug(c).filename)
        ELSE Path(conan_profiles_folder_name, host_profile_release(c).filename)]

\* A slip in the cleanup: the last pointer file is left behind.
CleanAllStatementsFour ==
    <<Remove(kCurrentToolchainFile),
      Remove(kCurrentConanBuildProfileDebug),
      Remove(kCurrentConanBuildProfileRelease),
      Remove(kCurrentConanHostProfileDebug)>>

\* The pointer-file statements of ProjectBuilder.clean_all, in order.
CleanAllStatements ==
    <<Remove(kCurrentToolchainFile),
      Remove(kCurrentConanBuildProfileDebug),
      Remove(kCurrentConanBuildProfileRelease),
      Remove(kCurrentConanHostProfileDebug),
      Remove(kCurrentConanHostProfileRelease)>>

ApplyOps == {"apply_compiler_toolchain", "ci_select_toolchain", "select_compiler_toolchain"}

\* The statements the running operation executes.
Statements ==
    IF op = "clean_all" THEN CleanAllStatements ELSE ApplyStatements(call)

NoCall == [none |-> TRUE]

NoLocals == [none |-> TRUE]

NotParsed == [none |-> TRUE]

NoQuery == [none |-> TRUE]

\* Entering the body of apply_compiler_toolchain with arguments c.
EnterApply(c) ==
    /\ call' = c
    /\ previous' = IF outcome = "ok" /\ op \in ApplyOps THEN call ELSE NoCall
    /\ pc' = "run"
    /\ step' = 1
    /\ outcome' = "none"
    /\ failed_at' = 0
    /\ UNCHANGED links

\* Statements that merge instead of replacing: nothing is removed, and a
\* link onto an existing name leaves the name as it is.
RunStatementMerge ==
    /\ pc = "run"
    /\ LET st == Statements[step]
       IN  /\ links' = IF st.do = "symlink" /\ ~lexists(links, st.file)
                        THEN [links EXCEPT ![st.file] = st.src]
                        ELSE links
           /\ IF step = Len(Statements)
              THEN /\ pc' = "idle"
                   /\ outcome' = "ok"
                   /\ step' = 0
                   /\ UNCHANGED failed_at
              ELSE /\ step' = step + 1
                   /\ UNCHANGED <<pc, outcome, failed_at>>
    /\ locals' = IF pc' = "idle" THEN NoLocals ELSE locals
    /\ UNCHANGED <<host_system, architecture, conan_v2, folders, op, call,
                   previous, parsed, query>>

\* One statement of apply / clean_all runs to its end.
RunStatement ==
    /\ pc = "run"
    /\ LET st == Statements[step]
           r == IF st.do = "remove"
                THEN [err |-> NoError, fs |-> remove_file_if_exist(links, st.file)]
                ELSE os_symlink(links, st.src, st.file)
       IN  /\ links' = r.fs
           /\ IF r.err /= NoError
              THEN /\ pc' = "idle"
                   /\ outcome' = r.err
                   /\ failed_at' = step
                   /\ step' = 0
              ELSE IF step = Len(Statements)
              THEN /\ pc' = "idle"
                   /\ outcome' = "ok"
                   /\ step' = 0
                   /\ UNCHANGED failed_at
              ELSE /\ step' = step + 1
                   /\ UNCHANGED <<pc, outcome, failed_at>>
    /\ locals' = IF pc' = "idle" THEN NoLocals ELSE locals
    /\ UNCHANGED <<host_system, architecture, conan_v2, folders, op, call,
                   previous, parsed, query>>

\* The system call of the statement raises an OSError.  remove_file_if_exist
\* makes one only for a name that exists.  select_compiler_toolchain catches
\* FileNotFoundError and prompts again; every other caller lets it through.
FilesystemErrors == {"FileNotFoundError", "PermissionError"}

StatementRaises ==
    /\ pc = "run"
    /\ Statements[step].do = "remove" => lexists(links, Statements[step].file)
    /\ \E e \in FilesystemErrors :
          IF op = "select_compiler_toolchain" /\ e = "FileNotFoundError"
          THEN /\ pc' = "prompt"
               /\ outcome' = "none"
          ELSE /\ pc' = "idle"
               /\ outcome' = e
    /\ failed_at' = step
    /\ step' = 0
    /\ locals' = IF pc' = "idle" THEN NoLocals ELSE locals
    /\ UNCHANGED <<host_system, architecture, conan_v2, folders, links, op, call,
                   previous, parsed, query>>

\* ------------------------------------------------------- the direct callers
\* The arguments apply_compiler_toolchain is called with: the toolchain and
\* build profiles of one name, and for each host profile either None or the
\* profile of another name.
ApplyArguments ==
    {[toolchain |-> build.toolchain,
      build_profile_debug |-> build.profile_debug,
      build_profile_release |-> build.profile_release,
      host_profile_debug |-> hd,
      host_profile_release |-> hr] :
        build \in {[toolchain |-> Toolchain(n \o CMakeSuffix),
                    profile_debug |-> ConanProfile(n \o DebugProfileSuffix),
                    profile_release |-> ConanProfile(n \o ReleaseProfileSuffix)] :
                       n \in {NameGCC, NameClang}},
        hd \in {None, ConanProfile(NameClang \o DebugProfileSuffix)},
        hr \in {None, ConanProfile(NameClang \o ReleaseProfileSuffix)}}

\* CompilerToolchainManager.apply_compiler_toolchain, called directly.
apply_compiler_toolchain ==
    /\ pc = "idle"
    /\ \E c \in ApplyArguments : EnterApply(c)
    /\ op' = "apply_compiler_toolchain"
    /\ UNCHANGED <<host_system, architecture, conan_v2, folders, locals, parsed,
                   query>>

\* A name whose compiler type is in another case.
NameLowercase ==
    <<"x86", "-", "64", "_", "clang", "-", "17", "_", "Ubuntu", "_", "APT">>

\* The names a CI job passes to --select-toolchain.
CIToolchainNames == {NameGCC, NameClang, NameStdlib, NameShort, NameLowercase}

CIHostNames == {NameClang, NameStdlib, NameLowercase}

\* The descriptors ci_select_toolchain(build_name, host_name) constructs
\* from the build name, or the error one of them raises.
ci_build_descriptors(build_name) ==
    LET Profiles(cmake_toolchain) ==
            IF cmake_toolchain.err /= NoError THEN [err |-> cmake_toolchain.err]
            ELSE LET Release(build_profile_dbg) ==
                         IF build_profile_dbg.err /= NoError
                         THEN [err |-> build_profile_dbg.err]
                         ELSE LET All(build_profile_rel) ==
                                      IF build_profile_rel.err /= NoError
                                      THEN [err |-> build_profile_rel.err]
                                      ELSE [err |-> NoError,
                                            toolchain |-> cmake_toolchain,
                                            build_profile_debug |-> build_profile_dbg,
                                            build_profile_release |-> build_profile_rel]
                              IN  CHOOSE r \in {All(p) : p \in
                                      {ConanProfile(build_name \o ReleaseProfileSuffix)}} :
                                      TRUE
                 IN  CHOOSE r \in {Release(p) : p \in
                         {ConanProfile(build_name \o DebugProfileSuffix)}} : TRUE
    IN  CHOOSE r \in {Profiles(t) : t \in {Toolchain(build_name \o CMakeSuffix)}} : TRUE

\* The host profiles it constructs: both None when no host name is given
\* (host = None), both from the name host.name otherwise.
ci_host_descriptors(host) ==
    IF host = None
    THEN [err |-> NoError, host_profile_debug |-> None, host_profile_release |-> None]
    ELSE LET Release(host_profile_dbg) ==
                 IF host_profile_dbg.err /= NoError THEN [err |-> host_profile_dbg.err]
                 ELSE LET Both(host_profile_rel) ==
                              IF host_profile_rel.err /= NoError
                              THEN [err |-> host_profile_rel.err]
                              ELSE [err |-> NoError,
                                    host_profile_debug |-> host_profile_dbg,
                                    host_profile_release |-> host_profile_rel]
                      IN  CHOOSE r \in {Both(p) : p \in
                              {ConanProfile(host.name \o ReleaseProfileSuffix)}} : TRUE
         IN  CHOOSE r \in {Release(p) : p \in
                 {ConanProfile(host.name \o DebugProfileSuffix)}} : TRUE

\* A slip in the call: the Release host profile is not passed on.
ci_select_toolchain_arguments_debug_host(build, host) ==
    IF build.err /= NoError THEN [err |-> build.err]
    ELSE IF host.err /= NoError THEN [err |-> host.err]
    ELSE [err |-> NoError,
          arguments |-> [toolchain |-> build.toolchain,
                         build_profile_debug |-> build.build_profile_debug,
                         build_profile_release |-> build.build_profile_release,
                         host_profile_debug |-> host.host_profile_debug,
                         host_profile_release |-> None]]

\* The arguments ci_select_toolchain passes to apply_compiler_toolchain, or
\* the first error of the five constructions.
ci_select_toolchain_arguments(build, host) ==
    IF build.err /= NoError THEN [err |-> build.err]
    ELSE IF host.err /= NoError THEN [err |-> host.err]
    ELSE [err |-> NoError,
          arguments |-> [toolchain |-> build.toolchain,
                         build_profile_debug |-> build.build_profile_debug,
                         build_profile_release |-> build.build_profile_release,
                         host_profile_debug |-> host.host_profile_debug,
                         host_profile_release |-> host.host_profile_release]]

\* The CI invocations of the model: the build name, the host name (None
\* when left out) and what ci_select_toolchain makes of them.
CIInvocations ==
    {[build_name |-> n, host |-> h,
      made |-> ci_select_toolchain_arguments(ci_build_descriptors(n),
                                             ci_host_descriptors(h))] :
        n \in CIToolchainNames,
        h \in {[name |-> m] : m \in CIHostNames} \cup {None}}

\* A slip in the order: the pointer files are removed before the names are
\* parsed.
ci_select_toolchain_removing_first ==
    /\ pc = "idle"
    /\ \E ci \in CIInvocations :
          IF ci.made.err /= NoError
          THEN /\ outcome' = ci.made.err
               /\ pc' = "idle"
               /\ failed_at' = 0
               /\ call' = [build_name |-> ci.build_name, host |-> ci.host]
               /\ links' = [f \in PointerFiles |-> Absent]
               /\ previous' = NoCall
               /\ UNCHANGED step
          ELSE EnterApply(ci.made.arguments)
    /\ op' = "ci_select_toolchain"
    /\ UNCHANGED <<host_system, architecture, conan_v2, folders, locals, parsed,
                   query>>

\* Chaos.ci_select_toolchain(build_name, host_name).  When a name does not
\* parse no apply is called, and call keeps the two names instead.
ci_select_toolchain ==
    /\ pc = "idle"
    /\ \E ci \in CIInvocations :
          IF ci.made.err /= NoError
          THEN /\ outcome' = ci.made.err
               /\ pc' = "idle"
               /\ failed_at' = 0
               /\ call' = [build_name |-> ci.build_name, host |-> ci.host]
               /\ previous' = NoCall
               /\ UNCHANGED <<links, step>>
          ELSE EnterApply(ci.made.arguments)
    /\ op' = "ci_select_toolchain"
    /\ UNCHANGED <<host_system, architecture, conan_v2, folders, locals, parsed,
                   query>>

\* What ci_entry_point gives its caller once ci_select_toolchain has ended:
\* 0, or -1 for the three exceptions it catches; any other exception leaves
\* it.
ci_entry_point ==
    IF outcome = "ok" THEN [returns |-> 0]
    ELSE IF outcome \in {"KeyError", "ValueError", "CalledProcessError"}
    THEN [returns |-> -1]
    ELSE [raises |-> outcome]

\* ProjectBuilder.clean_all
clean_all ==
    /\ pc = "idle"
    /\ op' = "clean_all"
    /\ pc' = "run"
    /\ step' = 1
    /\ outcome' = "none"
    /\ failed_at' = 0
    /\ call' = NoCall
    /\ previous' = NoCall
    /\ UNCHANGED <<host_system, architecture, conan_v2, folders, links, locals,
                   parsed, query>>

\* The step of ProjectBuilder.configure that conan_install did not reach.
NotRun == [none |-> TRUE]

\* ProjectBuilder.conan_install: the profiles the conan command is given, or
\* the ValueError of the Conan 1.x branch.  The two arguments are compared
\* as they are passed, and configure passes the names of the pointer files.
conan_install(build_profile, host_profile) ==
    IF conan_v2
    THEN [err |-> NoError,
          args |-> [profile_build |-> build_profile,
                    profile_host |-> host_profile]]
    ELSE IF build_profile /= host_profile
    THEN [err |-> "ValueError", args |-> NotRun]
    ELSE [err |-> NoError, args |-> [profile |-> build_profile]]

\* ProjectBuilder.configure: a fresh build folder, conan install on the
\* pointer files of the build type, cmake generate.  Each of the two
\* commands either completes or ends in CalledProcessError.
configure ==
    /\ pc = "idle"
    /\ \E build_type \in {"kDebug", "kRelease"} :
          LET build_profile == IF build_type = "kDebug"
                               THEN kCurrentConanBuildProfileDebug
                               ELSE kCurrentConanBuildProfileRelease
              host_profile == IF build_type = "kDebug"
                              THEN kCurrentConanHostProfileDebug
                              ELSE kCurrentConanHostProfileRelease
              r == conan_install(build_profile, host_profile)
          IN  /\ locals' = [build_type |-> build_type, conan |-> r.args]
              /\ IF r.err /= NoError
                 THEN outcome' = r.err
                 ELSE outcome' \in {"ok", "CalledProcessError"}
    /\ op' = "configure"
    /\ step' = 0
    /\ failed_at' = 0
    /\ UNCHANGED <<host_system, architecture, conan_v2, folders, links, pc,
                   call, previous, parsed, query>>

\* ------------------------------------------------------------------- menus
\* The most items a menu is given.
MaxItems == 3

\* The callables given as handlers: bound methods, and the closure
\* add_submenu makes of a handler and a submenu.
MenuHandlers == {[fn |-> "clean_all"], [fn |-> "select_compiler_toolchain"]}

\* MenuItem(identifier, title, handler)
MenuItem(identifier, title, handler) ==
    [identifier |-> identifier, title |-> title, handler |-> handler]

\* Menu(title): no items, the tracker at 0, an empty index map.
Menu(title) ==
    [title |-> title, items |-> <<>>, identifier_tracker |-> 0,
     index_map |-> <<>>]

\* Menu.add_item
add_item(menu, title, handler) ==
    [menu EXCEPT
        !.items = Append(@, MenuItem(menu.identifier_tracker, title, handler)),
        !.identifier_tracker = @ + 1]

\* Menu.add_submenu: an item whose handler calls `handler` on the submenu.
add_submenu(menu, title, submenu, handler) ==
    add_item(menu, title, [fn |-> handler, submenu |-> submenu])

\* Menu.add_separator
add_separator(menu) == add_item(menu, <<>>, None)

\* A slip in the loop: the index counts every item, selectable or not.
build_index_map_counting_all(menu) ==
    LET RECURSIVE Each(_, _)
        Each(i, map) ==
            IF i > Len(menu.items) THEN map
            ELSE IF menu.items[i].handler /= None
            THEN Each(i + 1, ((i - 1) :> menu.items[i].identifier) @@ map)
            ELSE Each(i + 1, map)
    IN  [menu EXCEPT !.index_map = Each(1, menu.index_map)]

\* Menu.build_index_map: the loop over the items, writing into the map the
\* menu already has.
build_index_map(menu) ==
    LET RECURSIVE Each(_, _, _)
        Each(i, index, map) ==
            IF i > Len(menu.items) THEN map
            ELSE IF menu.items[i].handler /= None
            THEN Each(i + 1, index + 1,
                      (index :> menu.items[i].identifier) @@ map)
            ELSE Each(i + 1, index, map)
    IN  [menu EXCEPT !.index_map = Each(1, 0, menu.index_map)]

\* Menu.render: prints the menu and fills the index map by the same loop.
render(menu) == build_index_map(menu)

\* Menu.select up to the call of the handler: the item whose handler is
\* called, or the exception of the lookup that failed.
select(menu, index) ==
    IF index \notin DOMAIN menu.index_map
    THEN [err |-> "KeyError", item |-> None]
    ELSE IF menu.index_map[index] + 1 \notin DOMAIN menu.items
    THEN [err |-> "IndexError", item |-> None]
    ELSE IF menu.items[menu.index_map[index] + 1].handler = None
    THEN [err |-> "TypeError", item |-> None]
    ELSE [err |-> NoError, item |-> menu.items[menu.index_map[index] + 1]]

\* The calls below act on the menu that Chaos.control holds in its local
\* `menu`.  `rendered` tells that the index map was filled after the last
\* item was added; `index` and `invoked` are the argument of the last
\* select and the items whose handlers it called.
MenuLocals(menu, rendered) ==
    [menu |-> menu, rendered |-> rendered, index |-> None, invoked |-> <<>>]

MenuCall(name, menu, rendered) ==
    /\ pc = "idle"
    /\ op' = name
    /\ locals' = MenuLocals(menu, rendered)
    /\ outcome' = "ok"
    /\ UNCHANGED <<host_system, architecture, conan_v2, folders, links, pc,
                   step, call, failed_at, previous, parsed, query>>

call_add_item ==
    /\ Len(locals.menu.items) < MaxItems
    /\ \E handler \in MenuHandlers \cup {None} :
          MenuCall("add_item", add_item(locals.menu, <<"item">>, handler),
                   FALSE)

call_add_submenu ==
    /\ Len(locals.menu.items) < MaxItems
    /\ MenuCall("add_submenu",
                add_submenu(locals.menu, <<"item">>, "compiler_menu",
                            "interact"),
                FALSE)

call_add_separator ==
    /\ Len(locals.menu.items) < MaxItems
    /\ MenuCall("add_separator", add_separator(locals.menu), FALSE)

call_build_index_map ==
    MenuCall("build_index_map", build_index_map(locals.menu), TRUE)

call_render == MenuCall("render", render(locals.menu), TRUE)

\* Menu.select(index): the handler called either returns or raises what the
\* command it runs raises.
call_select ==
    /\ pc = "idle"
    /\ \E index \in -1 .. MaxItems :
          LET r == select(locals.menu, index)
          IN  /\ locals' = [locals EXCEPT
                                !.index = index,
                                !.invoked = IF r.err = NoError
                                            THEN <<r.item>> ELSE <<>>]
              /\ IF r.err /= NoError
                 THEN outcome' = r.err
                 ELSE outcome' \in {"ok", "CalledProcessError"}
    /\ op' = "select"
    /\ UNCHANGED <<host_system, architecture, conan_v2, folders, links, pc,
                   step, call, failed_at, previous, parsed, query>>

\* Chaos.control: 0 when the selection returns, -1 for the three exceptions
\* it catches; any other exception leaves it.
control ==
    IF outcome = "ok" THEN [returns |-> 0]
    ELSE IF outcome \in {"KeyError", "ValueError", "CalledProcessError"}
    THEN [returns |-> -1]
    ELSE [raises |-> outcome]

\* The items of the menu that have a handler, in item order.
Selectable(menu) == SelectSeq(menu.items, LAMBDA item : item.handler /= None)

\* ------------------------------------------------------------ XcodeFinder
\* The most bundles find_all finds.
MaxBundles == 3

\* XcodeBundle: the version read from the bundle's Info.plist.
XcodeBundle(major, minor, patch) ==
    [major |-> major, minor |-> minor, patch |-> patch]

\* The versions of the bundles installed.
InstalledBundles ==
    {XcodeBundle(14, 1, 1)} \cup
    {XcodeBundle(15, minor, patch) : minor \in 0 .. 1, patch \in 0 .. 1}

\* What XcodeFinder.find_all returns: the bundles in the order they were
\* listed, no version twice.
FoundBundles ==
    LET RECURSIVE Lists(_)
        Lists(n) ==
            IF n = 0 THEN {<<>>}
            ELSE Lists(n - 1) \cup
                 {Append(l, b) :
                     l \in {m \in Lists(n - 1) : Len(m) = n - 1},
                     b \in InstalledBundles}
    IN  {l \in Lists(MaxBundles) :
            \A i, j \in DOMAIN l : i /= j => l[i] /= l[j]}

\* sorted(bundles, key=attrgetter(key), reverse=True): descending by the one
\* attribute, bundles of equal attribute staying in the order they had.
sorted_reverse(bundles, key) ==
    LET RECURSIVE Insert(_, _)
        Insert(r, b) ==
            IF r = <<>> THEN <<b>>
            ELSE IF Head(r)[key] >= b[key]
            THEN <<Head(r)>> \o Insert(Tail(r), b)
            ELSE <<b>> \o r
        RECURSIVE Each(_, _)
        Each(i, r) ==
            IF i > Len(bundles) THEN r
            ELSE Each(i + 1, Insert(r, bundles[i]))
    IN  Each(1, <<>>)

\* XcodeFinder.find on the bundles find_all returned.  An optional argument
\* is None or [is |-> the number].
find(found, major, minor, patch) ==
    LET of_major == SelectSeq(found, LAMBDA bundle : bundle.major = major)
        of_minor ==
            SelectSeq(of_major, LAMBDA bundle : bundle.minor = minor.is)
        bundles ==
            IF minor = None THEN sorted_reverse(of_major, "minor")
            ELSE IF patch = None THEN sorted_reverse(of_minor, "patch")
            ELSE SelectSeq(of_minor, LAMBDA bundle : bundle.patch = patch.is)
    IN  IF Len(bundles) /= 0 THEN bundles[1] ELSE None

\* A call of find, with minor and patch given or left out.
call_find ==
    /\ query /= NoQuery
    /\ "result" \notin DOMAIN query
    /\ \E major \in 14 .. 15 :
       \E minor \in {[is |-> v] : v \in 0 .. 1} \cup {None} :
       \E patch \in {[is |-> v] : v \in 0 .. 1} \cup {None} :
          query' = [found |-> query.found,
                    major |-> major, minor |-> minor, patch |-> patch,
                    result |-> find(query.found, major, minor, patch)]
    /\ UNCHANGED <<host_system, architecture, conan_v2, folders, links, op, pc,
                   step, call, outcome, failed_at, previous, locals, parsed>>

\* ----------------------------------------------------------- CMakeManager
\* The most release folders the page of cmake.org/files lists.
MaxPublished == 3

\* The (major, minor) pairs of the release folders CMake has published.
PublishedVersions == {<<3, 19>>, <<3, 20>>, <<3, 31>>, <<4, 0>>, <<4, 1>>}

\* What re.findall gives on the page: the pairs in page order, none twice.
PublishedPages ==
    LET RECURSIVE Lists(_)
        Lists(n) ==
            IF n = 0 THEN {<<>>}
            ELSE Lists(n - 1) \cup
                 {Append(l, v) :
                     l \in {m \in Lists(n - 1) : Len(m) = n - 1},
                     v \in PublishedVersions}
    IN  {l \in Lists(MaxPublished) :
            \A i, j \in DOMAIN l : i /= j => l[i] /= l[j]}

\* The order of Python on pairs of integers.
pair_lt(a, b) == a[1] < b[1] \/ (a[1] = b[1] /\ a[2] < b[2])

\* sorted(list) on pairs of integers: ascending.
sorted_pairs(pairs) ==
    LET RECURSIVE Insert(_, _)
        Insert(r, v) ==
            IF r = <<>> THEN <<v>>
            ELSE IF pair_lt(v, Head(r)) THEN <<v>> \o r
            ELSE <<Head(r)>> \o Insert(Tail(r), v)
        RECURSIVE Each(_, _)
        Each(i, r) ==
            IF i > Len(pairs) THEN r ELSE Each(i + 1, Insert(r, pairs[i]))
    IN  Each(1, <<>>)

\* CMakeManager.get_all_installer_versions on the pairs found in the page.
get_all_installer_versions(result, min_major, min_minor) ==
    sorted_pairs(SelectSeq(result,
                           LAMBDA pair : pair[1] >= min_major
                                         /\ pair[2] >= min_minor))

call_get_all_installer_versions ==
    /\ query /= NoQuery
    /\ "versions" \notin DOMAIN query
    /\ \E min_major \in 3 .. 4 :
       \E min_minor \in {0, 20} :
          query' = [page |-> query.page,
                    min_major |-> min_major, min_minor |-> min_minor,
                    versions |-> get_all_installer_versions(
                                     query.page, min_major, min_minor)]
    /\ UNCHANGED <<host_system, architecture, conan_v2, folders, links, op, pc,
                   step, call, outcome, failed_at, previous, locals, parsed>>

\* ----------------------------------------------------- toolchain installs
\* The cases of the match in Chaos.ci_install_toolchain: the name and the
\* method of the toolchain manager it calls.
CIInstallCases ==
    {[name |-> "gcc-10", method |-> "install_gcc_10"],
     [name |-> "gcc-11", method |-> "install_gcc_11"],
     [name |-> "gcc-12", method |-> "install_gcc_12"],
     [name |-> "gcc-13", method |-> "install_gcc_13"],
     [name |-> "gcc-14", method |-> "install_gcc_14"],
     [name |-> "gcc-15", method |-> "install_gcc_15"],
     [name |-> "clang-13", method |-> "install_clang_13"],
     [name |-> "clang-14", method |-> "install_clang_14"],
     [name |-> "clang-15", method |-> "install_clang_15"],
     [name |-> "clang-16", method |-> "install_clang_16"],
     [name |-> "clang-17", method |-> "install_clang_17"],
     [name |-> "clang-18", method |-> "install_clang_18"],
     [name |-> "clang-19", method |-> "install_clang_19"],
     [name |-> "clang-20", method |-> "install_clang_20"],
     [name |-> "apple-clang-13", method |-> "install_apple_clang_13"],
     [name |-> "apple-clang-14", method |-> "install_apple_clang_14"],
     [name |-> "apple-clang-15", method |-> "install_apple_clang_15"],
     [name |-> "apple-clang-16", method |-> "install_apple_clang_16"],
     [name |-> "apple-clang-17", method |-> "install_apple_clang_17"]}

\* Names given on the command line that no case matches.
OtherInstallNames == {"gcc-9", "GCC-10", "msvc-19"}

\* The install methods CompilerToolchainManager declares and each of its
\* subclasses defines.
GCCMethods ==
    {"install_gcc_10", "install_gcc_11", "install_gcc_12", "install_gcc_13",
     "install_gcc_14"}

ClangMethods ==
    {"install_clang_13", "install_clang_14", "install_clang_15",
     "install_clang_16", "install_clang_17", "install_clang_18",
     "install_clang_19"}

\* The install methods of AppleClang and the Xcode major each selects.
AppleClangMethods ==
    {[method |-> "install_apple_clang_13", major |-> 13],
     [method |-> "install_apple_clang_14", major |-> 14],
     [method |-> "install_apple_clang_15", major |-> 15],
     [method |-> "install_apple_clang_16", major |-> 16]}

ManagerMethods ==
    GCCMethods \cup ClangMethods \cup {m.method : m \in AppleClangMethods}

\* A package manager command: it completes, or check_returncode raises.
CommandOutcomes == {"ok", "CalledProcessError"}

\* CompilerToolchainManagerMacOS.select_xcode_installation(major) on the
\* bundles found under /Applications.
select_xcode_installation(found, major) ==
    IF find(found, major, None, None) = None
    THEN {"RuntimeError"}
    ELSE CommandOutcomes

\* The ways a call of the method on the manager of the host can end.
install_method(method, found) ==
    IF method \notin ManagerMethods THEN {"AttributeError"}
    ELSE IF host_system = "kMacOS"
    THEN IF method \in GCCMethods \cup ClangMethods
         THEN IF method = "install_gcc_10" /\ architecture = "kARM64"
              THEN {"ok"}
              ELSE CommandOutcomes
         ELSE select_xcode_installation(
                  found,
                  (CHOOSE m \in AppleClangMethods : m.method = method).major)
    ELSE IF host_system = "kUbuntu"
    THEN IF method \in GCCMethods \cup ClangMethods
         THEN CommandOutcomes
         ELSE {"ok"}
    ELSE {"ok"}

\* Chaos.ci_install_toolchain(name)
ci_install_toolchain ==
    /\ pc = "idle"
    /\ \E name \in {c.name : c \in CIInstallCases} \cup OtherInstallNames :
          IF \E c \in CIInstallCases : c.name = name
          THEN LET method ==
                       (CHOOSE c \in CIInstallCases : c.name = name).method
               IN  /\ call' = [name |-> name, method |-> [attr |-> method]]
                   /\ outcome' \in install_method(method, query.found)
          ELSE /\ call' = [name |-> name, method |-> None]
               /\ outcome' = "KeyError"
    /\ op' = "ci_install_toolchain"
    /\ UNCHANGED <<host_system, architecture, conan_v2, folders, links, pc,
                   step, failed_at, previous, locals, parsed, query>>

\* ------------------------------------------------------ directory catalogs
IsCMakeFile(filename) == endswith(filename, CMakeSuffix)

IsProfileFile(filename) == endswith(filename, ProfileSuffix)

IsCompatible(descriptor) ==
    compatible(descriptor.identifier, host_system, architecture)

\* A slip in the scan: a file that fails to parse is left out.
fetch_all_compiler_toolchains_skipping(listing) ==
    LET RECURSIVE Each(_, _)
        Each(done, rest) ==
            IF rest = <<>> THEN [err |-> NoError, list |-> done]
            ELSE LET Add(item) ==
                         IF item.err /= NoError THEN Each(done, Tail(rest))
                         ELSE Each(Append(done, item), Tail(rest))
                 IN  CHOOSE r \in {Add(item) : item \in {Toolchain(Head(rest))}} : TRUE
    IN  CHOOSE r \in {Each(<<>>, names) :
                         names \in {SelectSeq(listing, IsCMakeFile)}} : TRUE

\* fetch_all_compiler_toolchains(folder), listing being os.listdir(folder)
fetch_all_compiler_toolchains(listing) ==
    LET RECURSIVE Each(_, _)
        Each(done, rest) ==
            IF rest = <<>> THEN [err |-> NoError, list |-> done]
            ELSE LET Add(item) ==
                         IF item.err /= NoError THEN [err |-> item.err]
                         ELSE Each(Append(done, item), Tail(rest))
                 IN  CHOOSE r \in {Add(item) : item \in {Toolchain(Head(rest))}} : TRUE
    IN  CHOOSE r \in {Each(<<>>, names) :
                         names \in {SelectSeq(listing, IsCMakeFile)}} : TRUE

\* fetch_compatible_compiler_toolchains(folder)
fetch_compatible_compiler_toolchains(listing) ==
    LET Filter(all) ==
            IF all.err /= NoError THEN all
            ELSE [err |-> NoError, list |-> SelectSeq(all.list, IsCompatible)]
    IN  CHOOSE found \in {Filter(all) :
                             all \in {fetch_all_compiler_toolchains(listing)}} : TRUE

\* fetch_all_conan_profiles(folder)
fetch_all_conan_profiles(listing) ==
    LET RECURSIVE Each(_, _)
        Each(done, rest) ==
            IF rest = <<>> THEN [err |-> NoError, list |-> done]
            ELSE LET Add(item) ==
                         IF item.err /= NoError THEN [err |-> item.err]
                         ELSE Each(Append(done, item), Tail(rest))
                 IN  CHOOSE r \in {Add(item) : item \in {ConanProfile(Head(rest))}} :
                         TRUE
    IN  CHOOSE r \in {Each(<<>>, names) :
                         names \in {SelectSeq(listing, IsProfileFile)}} : TRUE

\* fetch_compatible_conan_profiles(folder)
fetch_compatible_conan_profiles(listing) ==
    LET Filter(all) ==
            IF all.err /= NoError THEN all
            ELSE [err |-> NoError, list |-> SelectSeq(all.list, IsCompatible)]
    IN  CHOOSE found \in {Filter(all) :
                             all \in {fetch_all_conan_profiles(listing)}} : TRUE

\* A dict is a function from its keys to their values.
EmptyDict == [k \in {} |-> Absent]

\* d[key] = value: hashes the key, then adds or replaces the entry.  keys
\* is the order the keys were first inserted in.
DictSet(d, key, value) ==
    IF d.err /= NoError THEN d
    ELSE IF IdentifierHash(key).err /= NoError
    THEN [err |-> IdentifierHash(key).err]
    ELSE [err |-> NoError,
          keys |-> IF key \in DOMAIN d.dict THEN d.keys ELSE Append(d.keys, key),
          dict |-> [k \in DOMAIN d.dict \cup {key} |->
                       IF k = key THEN value ELSE d.dict[k]]]

\* {x.identifier: x for x in list}: the items are entered in list order.
DictOf(list) ==
    LET RECURSIVE Fill(_, _)
        Fill(d, n) ==
            IF n > Len(list) \/ d.err /= NoError THEN d
            ELSE CHOOSE r \in {Fill(next, n + 1) :
                     next \in {DictSet(d, list[n].identifier, list[n])}} : TRUE
    IN  Fill([err |-> NoError, keys |-> <<>>, dict |-> EmptyDict], 1)

IsDebug(profile) == profile.buildType = "kDebug"

IsNotDebug(profile) == profile.buildType /= "kDebug"

\* fetch_compatible_compiler_toolchains_as_map(folder)
fetch_compatible_compiler_toolchains_as_map(listing) ==
    LET Map(found) ==
            IF found.err /= NoError THEN found
            ELSE DictOf(found.list)
    IN  CHOOSE map \in {Map(found) :
                 found \in {fetch_compatible_compiler_toolchains(listing)}} : TRUE

\* fetch_compatible_conan_profiles_as_map(folder): the Debug map and the
\* Release map, or the error raised on the way.  The loop enters each
\* profile into one of the two maps; each map receives its profiles in list
\* order.
fetch_compatible_conan_profiles_as_map(listing) ==
    LET Release(found, dbg) ==
            IF dbg.err /= NoError THEN dbg
            ELSE LET Pair(rel) ==
                         IF rel.err /= NoError THEN rel
                         ELSE [err |-> NoError, pmap_dbg |-> dbg, pmap_rel |-> rel]
                 IN  CHOOSE maps \in {Pair(rel) :
                         rel \in {DictOf(SelectSeq(found.list, IsNotDebug))}} : TRUE
        Maps(found) ==
            IF found.err /= NoError THEN found
            ELSE CHOOSE maps \in {Release(found, dbg) :
                     dbg \in {DictOf(SelectSeq(found.list, IsDebug))}} : TRUE
    IN  CHOOSE maps \in {Maps(found) :
                 found \in {fetch_compatible_conan_profiles(listing)}} : TRUE

\* os.listdir(folder): the names of a folder in some order.
RECURSIVE Listings(_)
Listings(names) ==
    IF names = {} THEN {<<>>}
    ELSE UNION {{<<first>> \o rest : rest \in Listings(names \ {first})} :
                   first \in names}

\* ---------------------------------------------------------------- ordering
\* str < str on the value strings of the enums: their rank in string order.
ArchitectureRank == [kARM32 |-> 1, kARM64 |-> 2, kx86_64 |-> 3]

CompilerTypeRank == [kAppleClang |-> 1, kClang |-> 2, kGCC |-> 3, kMSVC |-> 4]

HostSystemRank == [kUbuntu |-> 1, kWindows |-> 2, kMacOS |-> 3]

InstallationSourceRank ==
    [kAPT |-> 1, kARM |-> 2, kHomebrew |-> 3, kVisualStudio |-> 4, kXcode |-> 5]

\* Compiler.__lt__
CompilerLt(a, b) ==
    /\ CompilerTypeRank[a.compilerType] < CompilerTypeRank[b.compilerType]
    /\ a.version < b.version

\* BuildSystemIdentifier.__lt__
IdentifierLt(a, b) ==
    /\ ArchitectureRank[a.architecture] < ArchitectureRank[b.architecture]
    /\ CompilerLt(a.compiler, b.compiler)
    /\ HostSystemRank[a.hostSystem] < HostSystemRank[b.hostSystem]
    /\ InstallationSourceRank[a.installationSource]
           < InstallationSourceRank[b.installationSource]

\* sorted(list) of a short list: the leading run is found (and reversed when
\* strictly descending), then each later item is placed by binary insertion.
RECURSIVE RunLength(_, _, _)
RunLength(a, n, descending) ==
    IF n >= Len(a) THEN n
    ELSE IF IdentifierLt(a[n + 1], a[n]) = descending
    THEN RunLength(a, n + 1, descending)
    ELSE n

Reverse(a) == [i \in 1..Len(a) |-> a[Len(a) + 1 - i]]

RECURSIVE BinarySearch(_, _, _, _)
BinarySearch(a, pivot, l, r) ==
    IF l >= r THEN l
    ELSE LET p == l + ((r - l) \div 2)
         IN  IF IdentifierLt(pivot, a[p])
             THEN BinarySearch(a, pivot, l, p)
             ELSE BinarySearch(a, pivot, p + 1, r)

RECURSIVE BinarySort(_, _)
BinarySort(a, start) ==
    IF start > Len(a) THEN a
    ELSE LET Insert(l) ==
                 SubSeq(a, 1, l - 1) \o <<a[start]>> \o SubSeq(a, l, start - 1)
                     \o SubSeq(a, start + 1, Len(a))
         IN  CHOOSE r \in {BinarySort(next, start + 1) :
                 next \in {Insert(l) :
                     l \in {BinarySearch(a, a[start], 1, start)}}} : TRUE

sorted(list) ==
    LET Sort(a) ==
            IF Len(a) < 2 THEN a
            ELSE LET Runs(descending, n) ==
                         BinarySort((IF descending THEN Reverse(SubSeq(a, 1, n))
                                     ELSE SubSeq(a, 1, n))
                                        \o SubSeq(a, n + 1, Len(a)),
                                    n + 1)
                 IN  CHOOSE r \in {Runs(descending, RunLength(a, 2, descending)) :
                         descending \in {IdentifierLt(a[2], a[1])}} : TRUE
    IN  CHOOSE r \in {Sort(a) : a \in {list}} : TRUE

\* ------------------------------------------------ select_compiler_toolchain
\* select_compiler_toolchain up to its loop: the catalogs, the two
\* assertions and the sorted identifiers.
select_compiler_toolchain ==
    /\ pc = "idle"
    /\ op' = "select_compiler_toolchain"
    /\ failed_at' = 0
    /\ step' = 0
    /\ \E toolchains \in {fetch_compatible_compiler_toolchains_as_map(tl) :
                              tl \in Listings(folders.toolchains)},
          profiles \in {fetch_compatible_conan_profiles_as_map(pl) :
                            pl \in Listings(folders.profiles)} :
              IF toolchains.err /= NoError
              THEN /\ outcome' = toolchains.err
                   /\ UNCHANGED <<pc, locals>>
              ELSE IF profiles.err /= NoError
              THEN /\ outcome' = profiles.err
                   /\ UNCHANGED <<pc, locals>>
              ELSE IF \/ Len(toolchains.keys) /= Len(profiles.pmap_dbg.keys)
                      \/ Len(toolchains.keys) /= Len(profiles.pmap_rel.keys)
              THEN /\ outcome' = "AssertionError"
                   /\ UNCHANGED <<pc, locals>>
              ELSE /\ outcome' = "none"
                   /\ pc' = "prompt"
                   /\ locals' = [toolchains |-> toolchains.dict,
                                 profiles_dbg |-> profiles.pmap_dbg.dict,
                                 profiles_rel |-> profiles.pmap_rel.dict,
                                 identifiers |-> sorted(toolchains.keys),
                                 input |-> None,
                                 retries |-> 0,
                                 applies |-> 0]
    /\ call' = NoCall
    /\ previous' = NoCall
    /\ UNCHANGED <<host_system, architecture, conan_v2, folders, links, parsed,
                   query>>

\* What input() gives: a line, or the end of the input / an interrupt.
PromptInputs ==
    {[line |-> <<"0">>], [line |-> <<"1">>], [line |-> <<"two">>],
     [line |-> <<>>], [raises |-> "EOFError"], [raises |-> "KeyboardInterrupt"]}

\* A slip in the loop: a line that is no valid index ends the selection.
select_input_once ==
    /\ pc = "prompt"
    /\ \E in \in PromptInputs :
          IF locals.identifiers /= <<>>
          THEN /\ outcome' = "AttributeError"
               /\ pc' = "idle"
               /\ locals' = NoLocals
               /\ UNCHANGED <<links, call, previous, step, failed_at>>
          ELSE IF "raises" \in DOMAIN in
          THEN /\ outcome' = in.raises
               /\ pc' = "idle"
               /\ locals' = NoLocals
               /\ UNCHANGED <<links, call, previous, step, failed_at>>
          ELSE IF \/ ~IsInt(in.line)
                  \/ int(in.line) \notin 0..(Cardinality(DOMAIN locals.toolchains) - 1)
          THEN /\ outcome' = "ok"
               /\ pc' = "idle"
               /\ locals' = NoLocals
               /\ UNCHANGED <<links, call, previous, step, failed_at>>
          ELSE LET identifier == locals.identifiers[int(in.line) + 1]
               IN  IF \/ identifier \notin DOMAIN locals.profiles_dbg
                      \/ identifier \notin DOMAIN locals.profiles_rel
                   THEN /\ outcome' = "KeyError"
                        /\ pc' = "idle"
                        /\ locals' = NoLocals
                        /\ UNCHANGED <<links, call, previous, step, failed_at>>
                   ELSE /\ locals' = [locals EXCEPT !.input = in,
                                                     !.applies = IF @ < 2 THEN @ + 1 ELSE @]
                        /\ EnterApply(
                            [toolchain |-> locals.toolchains[identifier],
                             build_profile_debug |-> locals.profiles_dbg[identifier],
                             build_profile_release |-> locals.profiles_rel[identifier],
                             host_profile_debug |-> None,
                             host_profile_release |-> None])
    /\ UNCHANGED <<host_system, architecture, conan_v2, folders, op, parsed,
                   query>>

\* One round of the loop of select_compiler_toolchain, from the prompt.
\* The list is printed first, a line for each identifier, which reads the
\* identifier's standard_library: an attribute no identifier has.  Then the
\* input read is kept in locals.input, the rounds that ended in "Please
\* input a valid compiler toolchain number" are counted in locals.retries up
\* to MaxRetries, and the calls of apply in locals.applies up to 2.
select_input ==
    /\ pc = "prompt"
    /\ \E in \in PromptInputs :
          IF locals.identifiers /= <<>>
          THEN /\ outcome' = "AttributeError"
               /\ pc' = "idle"
               /\ locals' = NoLocals
               /\ UNCHANGED <<links, call, previous, step, failed_at>>
          ELSE IF "raises" \in DOMAIN in
          THEN /\ outcome' = in.raises
               /\ pc' = "idle"
               /\ locals' = NoLocals
               /\ UNCHANGED <<links, call, previous, step, failed_at>>
          ELSE IF \/ ~IsInt(in.line)
                  \/ int(in.line) \notin 0..(Cardinality(DOMAIN locals.toolchains) - 1)
          THEN /\ outcome' = "none"
               /\ locals' = [locals EXCEPT
                                !.input = in,
                                !.retries = IF @ < MaxRetries THEN @ + 1 ELSE @]
               /\ UNCHANGED <<pc, links, call, previous, step, failed_at>>
          ELSE LET identifier == locals.identifiers[int(in.line) + 1]
               IN  IF \/ identifier \notin DOMAIN locals.profiles_dbg
                      \/ identifier \notin DOMAIN locals.profiles_rel
                   THEN /\ outcome' = "KeyError"
                        /\ pc' = "idle"
                        /\ locals' = NoLocals
                        /\ UNCHANGED <<links, call, previous, step, failed_at>>
                   ELSE /\ locals' = [locals EXCEPT !.input = in,
                                                     !.applies = IF @ < 2 THEN @ + 1 ELSE @]
                        /\ EnterApply(
                            [toolchain |-> locals.toolchains[identifier],
                             build_profile_debug |-> locals.profiles_dbg[identifier],
                             build_profile_release |-> locals.profiles_rel[identifier],
                             host_profile_debug |-> None,
                             host_profile_release |-> None])
    /\ UNCHANGED <<host_system, architecture, conan_v2, folders, op, parsed,
                   query>>

\* ------------------------------------------------- descriptor construction
\* Tokens a filename may carry at each place of the naming grammar
\* <Arch>_<Compiler>[_<Stdlib>]_<Host>_<Source>[_<BuildType>...].
TokenChoices ==
    [Arch |-> {<<"x86", "-", "64">>, <<"ARM64">>},
     Compiler |-> {<<"GCC", "-", "10">>, <<"Clang", "-", "17">>,
                   <<"Clang", "-", "017">>, <<"clang", "-", "17">>, <<"Clang17">>},
     Stdlib |-> {<<"libc++">>},
     Host |-> {<<"Ubuntu">>, <<"macOS">>, <<"FreeBSD">>},
     Source |-> {<<"APT">>, <<"Homebrew">>},
     Build |-> {<<"Debug">>, <<"Release">>, <<"debug">>}]

\* The kind of the i-th token, with or without the standard library token.
TokenKind(withStdlib, i) ==
    LET head == IF withStdlib
                THEN <<"Arch", "Compiler", "Stdlib", "Host", "Source">>
                ELSE <<"Arch", "Compiler", "Host", "Source">>
    IN  IF i <= Len(head) THEN head[i] ELSE "Build"

RECURSIVE TokenLists(_, _)
TokenLists(withStdlib, n) ==
    IF n = 0 THEN {<<>>}
    ELSE {Append(l, t) : l \in TokenLists(withStdlib, n - 1),
                         t \in TokenChoices[TokenKind(withStdlib, n)]}

\* The filenames descriptors are constructed from: 1..MaxTokens tokens joined
\* by "_", with either extension or none.
Filenames ==
    {Join(l, "_") \o ext :
        l \in UNION {TokenLists(w, n) : w \in BOOLEAN, n \in 1..MaxTokens},
        ext \in {CMakeSuffix, ProfileSuffix, <<>>}}

\* Toolchain(filename), for the filename drawn initially
construct_toolchain ==
    /\ parsed /= NotParsed
    /\ "result" \notin DOMAIN parsed
    /\ parsed' = [class |-> "Toolchain", filename |-> parsed.filename,
                  result |-> Toolchain(parsed.filename)]
    /\ UNCHANGED <<host_system, architecture, conan_v2, folders, links, op, pc,
                   step, call, outcome, failed_at, previous, locals, query>>

\* ConanProfile(filename), for the filename drawn initially
construct_profile ==
    /\ parsed /= NotParsed
    /\ "result" \notin DOMAIN parsed
    /\ parsed' = [class |-> "ConanProfile", filename |-> parsed.filename,
                  result |-> ConanProfile(parsed.filename)]
    /\ UNCHANGED <<host_system, architecture, conan_v2, folders, links, op, pc,
                   step, call, outcome, failed_at, previous, locals, query>>

\* descriptor.identifier.compatible(hostSystem, architecture)
call_compatible ==
    /\ parsed /= NotParsed
    /\ "result" \in DOMAIN parsed
    /\ parsed.result.err = NoError
    /\ query = NoQuery
    /\ \E h \in DOMAIN HostSystemValues, a \in DOMAIN ArchitectureValues :
          query' = [hostSystem |-> h, architecture |-> a,
                    result |-> compatible(parsed.result.identifier, h, a)]
    /\ UNCHANGED <<host_system, architecture, conan_v2, folders, links, op, pc,
                   step, call, outcome, failed_at, previous, locals, parsed>>

\* ------------------------------------------------------- value construction
NameError == "NameError"

\* The enum classes the descriptor module defines, by name.
EnumClasses ==
    [BuildType |-> BuildTypeValues, Architecture |-> ArchitectureValues,
     CompilerType |-> CompilerTypeValues, HostSystem |-> HostSystemValues,
     InstallationSource |-> InstallationSourceValues]

\* The class names value strings are looked up in: the five of the module
\* and StandardLibrary, which the manager's listing reads from identifiers.
EnumClassNames ==
    {"BuildType", "Architecture", "CompilerType", "HostSystem",
     "InstallationSource", "StandardLibrary"}

\* Strings handed to the enum classes: the value strings, and the same in
\* another case or spelling, and the empty string.
EnumStrings ==
    {<<"x86", "-", "64">>, <<"ARM32">>, <<"ARM64">>,
     <<"GCC">>, <<"Clang">>, <<"AppleClang">>, <<"MSVC">>,
     <<"libstdc++">>, <<"libc++">>, <<"Default">>,
     <<"macOS">>, <<"Ubuntu">>, <<"Windows">>, <<"FreeBSD">>,
     <<"Homebrew">>, <<"APT">>, <<"Xcode">>, <<"ARM">>, <<"VisualStudio">>,
     <<"Debug">>, <<"Release">>,
     <<"X86", "-", "64">>, <<"x86", "_", "64">>, <<"arm64">>, <<"gcc">>,
     <<"clang">>, <<"default">>, <<"MacOS">>, <<"ubuntu">>, <<"freebsd">>,
     <<"apt">>, <<"debug">>, <<"RELEASE">>, <<"kDebug">>, <<>>}

\* EnumClass(value), for the class and the string drawn initially: the
\* member, ValueError when the class has no member of that value, NameError
\* when the module has no class of that name.
construct_enum ==
    /\ parsed /= NotParsed
    /\ "value" \in DOMAIN parsed
    /\ "result" \notin DOMAIN parsed
    /\ parsed' = [class |-> parsed.class, value |-> parsed.value,
                  result |-> IF parsed.class \in DOMAIN EnumClasses
                             THEN EnumLookup(EnumClasses[parsed.class], parsed.value)
                             ELSE NameError]
    /\ UNCHANGED <<host_system, architecture, conan_v2, folders, links, op, pc,
                   step, call, outcome, failed_at, previous, locals, query>>

\* Strings handed to Compiler: a type word, then nothing, a dash, a dash
\* and a version, or more; and a name written without its dash.
CompilerDescriptions ==
    {type \o tail :
        type \in {<<"GCC">>, <<"Clang">>, <<"AppleClang">>, <<"MSVC">>,
                  <<"clang">>, <<"LLVM">>, <<>>},
        tail \in {<<>>, <<"-">>, <<"-", "0">>, <<"-", "10">>, <<"-", "17">>,
                  <<"-", "017">>, <<"-", "x">>, <<"-", "17", "-", "1">>,
                  <<"-", "-", "5">>, <<"-", "1", ".", "5">>}}
    \cup {<<"Clang17">>, <<"GCC10">>}

\* Compiler(description), for the description drawn initially
construct_compiler ==
    /\ parsed /= NotParsed
    /\ "description" \in DOMAIN parsed
    /\ "result" \notin DOMAIN parsed
    /\ parsed' = [description |-> parsed.description,
                  result |-> Compiler(parsed.description)]
    /\ UNCHANGED <<host_system, architecture, conan_v2, folders, links, op, pc,
                   step, call, outcome, failed_at, previous, locals, query>>

\* The descriptions of the compilers that are compared.
ComparedCompilers ==
    {<<type, "-", version>> :
        type \in {"GCC", "Clang", "AppleClang", "MSVC"},
        version \in {"0", "10", "17", "017"}}

\* left < right and right < left, for the two compilers drawn initially
compare_compilers ==
    /\ parsed /= NotParsed
    /\ "left" \in DOMAIN parsed
    /\ "result" \notin DOMAIN parsed
    /\ \E a \in {Compiler(parsed.left)}, b \in {Compiler(parsed.right)} :
          parsed' = [left |-> parsed.left, right |-> parsed.right,
                     a |-> a, b |-> b,
                     result |-> [lt |-> CompilerLt(a, b), gt |-> CompilerLt(b, a),
                                 eq |-> CompilerEq(a, b)]]
    /\ UNCHANGED <<host_system, architecture, conan_v2, folders, links, op, pc,
                   step, call, outcome, failed_at, previous, locals, query>>

\* ------------------------------------------------------------ folder scans
NameClang017 ==
    <<"x86", "-", "64", "_", "Clang", "-", "017", "_", "Ubuntu", "_", "APT">>

NameMac == <<"ARM64", "_", "AppleClang", "-", "17", "_", "macOS", "_", "Xcode">>

\* A macOS name whose compiler lacks its dash.
NameMacNoDash == <<"ARM64", "_", "AppleClang17", "_", "macOS", "_", "Xcode">>

\* self.fetch_all_compiler_toolchains(self.cmake_toolchains_folder_name)
call_fetch_all_compiler_toolchains ==
    /\ query = NoQuery
    /\ \E listing \in Listings(folders.toolchains) :
          query' = [function |-> "fetch_all_compiler_toolchains",
                    listing |-> listing,
                    result |-> fetch_all_compiler_toolchains(listing)]
    /\ UNCHANGED <<host_system, architecture, conan_v2, folders, links, op, pc,
                   step, call, outcome, failed_at, previous, locals, parsed>>

\* self.fetch_compatible_compiler_toolchains(...)
call_fetch_compatible_compiler_toolchains ==
    /\ query = NoQuery
    /\ \E listing \in Listings(folders.toolchains) :
          query' = [function |-> "fetch_compatible_compiler_toolchains",
                    listing |-> listing,
                    result |-> fetch_compatible_compiler_toolchains(listing)]
    /\ UNCHANGED <<host_system, architecture, conan_v2, folders, links, op, pc,
                   step, call, outcome, failed_at, previous, locals, parsed>>

\* self.fetch_compatible_compiler_toolchains_as_map(...)
call_fetch_compatible_compiler_toolchains_as_map ==
    /\ query = NoQuery
    /\ \E listing \in Listings(folders.toolchains) :
          query' = [function |-> "fetch_compatible_compiler_toolchains_as_map",
                    listing |-> listing,
                    result |-> fetch_compatible_compiler_toolchains_as_map(listing)]
    /\ UNCHANGED <<host_system, architecture, conan_v2, folders, links, op, pc,
                   step, call, outcome, failed_at, previous, locals, parsed>>

\* self.fetch_all_conan_profiles(self.conan_profiles_folder_name)
call_fetch_all_conan_profiles ==
    /\ query = NoQuery
    /\ \E listing \in Listings(folders.profiles) :
          query' = [function |-> "fetch_all_conan_profiles",
                    listing |-> listing,
                    result |-> fetch_all_conan_profiles(listing)]
    /\ UNCHANGED <<host_system, architecture, conan_v2, folders, links, op, pc,
                   step, call, outcome, failed_at, previous, locals, parsed>>

\* self.fetch_compatible_conan_profiles(...)
call_fetch_compatible_conan_profiles ==
    /\ query = NoQuery
    /\ \E listing \in Listings(folders.profiles) :
          query' = [function |-> "fetch_compatible_conan_profiles",
                    listing |-> listing,
                    result |-> fetch_compatible_conan_profiles(listing)]
    /\ UNCHANGED <<host_system, architecture, conan_v2, folders, links, op, pc,
                   step, call, outcome, failed_at, previous, locals, parsed>>

\* self.fetch_compatible_conan_profiles_as_map(...)
call_fetch_compatible_conan_profiles_as_map ==
    /\ query = NoQuery
    /\ \E listing \in Listings(folders.profiles) :
          query' = [function |-> "fetch_compatible_conan_profiles_as_map",
                    listing |-> listing,
                    result |-> fetch_compatible_conan_profiles_as_map(listing)]
    /\ UNCHANGED <<host_system, architecture, conan_v2, folders, links, op, pc,
                   step, call, outcome, failed_at, previous, locals, parsed>>

\* ---------------------------------------------------------------- listing
\* Toolchain names of the Ubuntu x86-64 manager's folder.
ListedNames ==
    {NameGCC, NameClang,
     <<"x86", "-", "64", "_", "GCC", "-", "17", "_", "Ubuntu", "_", "APT">>,
     <<"x86", "-", "64", "_", "Clang", "-", "10", "_", "Ubuntu", "_", "APT">>,
     <<"x86", "-", "64", "_", "Clang", "-", "17", "_", "Ubuntu", "_", "Homebrew">>}

\* The identifiers of those toolchains.
ListedIdentifiers ==
    {Toolchain(name \o CMakeSuffix).identifier : name \in ListedNames}

\* list(toolchains.keys()) of up to n keys: identifiers of different
\* toolchains, in the order they were entered.
RECURSIVE KeyLists(_)
KeyLists(n) ==
    IF n = 0 THEN {<<>>}
    ELSE LET shorter == KeyLists(n - 1)
         IN  shorter \cup
             UNION {{Append(l, id) :
                        id \in ListedIdentifiers \ {l[i] : i \in 1..Len(l)}} :
                    l \in {k \in shorter : Len(k) = n - 1}}

\* identifiers = sorted(list(toolchains.keys())), for the keys drawn initially
sort_identifiers ==
    /\ parsed /= NotParsed
    /\ "keys" \in DOMAIN parsed
    /\ "identifiers" \notin DOMAIN parsed
    /\ parsed' = [keys |-> parsed.keys, identifiers |-> sorted(parsed.keys)]
    /\ UNCHANGED <<host_system, architecture, conan_v2, folders, links, op, pc,
                   step, call, outcome, failed_at, previous, locals, query>>

\* ------------------------------------------------------------ specifications
\* Contents of the toolchains folder and the profiles folder: a toolchain
\* with its two profiles; with a Debug and a Release profile of different
\* toolchains; with a Debug profile alone; nothing; no descriptor.
CompleteDirectory ==
    [toolchains |-> {NameGCC \o CMakeSuffix},
     profiles |-> {NameGCC \o DebugProfileSuffix, NameGCC \o ReleaseProfileSuffix}]

Directories ==
    {CompleteDirectory,
     [toolchains |-> {NameGCC \o CMakeSuffix},
      profiles |-> {NameGCC \o DebugProfileSuffix,
                    NameClang \o ReleaseProfileSuffix}],
     [toolchains |-> {NameGCC \o CMakeSuffix},
      profiles |-> {NameGCC \o DebugProfileSuffix}],
     [toolchains |-> {}, profiles |-> {}],
     [toolchains |-> {<<"README", ".", "md">>}, profiles |-> {}]}

\* The installations the control center runs in: the Ubuntu manager over
\* each directory, and over the complete directory with Conan 2 and with
\* the macOS manager.
Installations ==
    {[manager |-> [host |-> "kUbuntu", arch |-> "kx86_64"], conan_v2 |-> FALSE,
      folders |-> d] : d \in Directories}
    \cup {[manager |-> [host |-> "kUbuntu", arch |-> "kx86_64"], conan_v2 |-> TRUE,
           folders |-> CompleteDirectory],
          [manager |-> [host |-> "kMacOS", arch |-> "kARM64"], conan_v2 |-> FALSE,
           folders |-> CompleteDirectory]}

InitProgram ==
    /\ links = [f \in PointerFiles |-> Absent]
    /\ op = "none"
    /\ pc = "idle"
    /\ step = 0
    /\ call = NoCall
    /\ outcome = "none"
    /\ failed_at = 0
    /\ previous = NoCall
    /\ locals = NoLocals
    /\ query = NoQuery

Init ==
    /\ \E i \in Installations :
          /\ host_system = i.manager.host
          /\ architecture = i.manager.arch
          /\ conan_v2 = i.conan_v2
          /\ folders = i.folders
    /\ parsed = NotParsed
    /\ InitProgram

\* The operations of the control center on the pointer files.
Next ==
    \/ ci_select_toolchain
    \/ select_compiler_toolchain
    \/ select_input
    \/ clean_all
    \/ RunStatement
    \/ StatementRaises

Spec == Init /\ [][Next]_vars

\* apply_compiler_toolchain called with any arguments.
InitApply ==
    /\ host_system = "kUbuntu"
    /\ architecture = "kx86_64"
    /\ conan_v2 \in BOOLEAN
    /\ folders = [toolchains |-> {}, profiles |-> {}]
    /\ parsed = NotParsed
    /\ InitProgram

NextApply ==
    \/ apply_compiler_toolchain
    \/ RunStatement
    \/ StatementRaises

SpecApply == InitApply /\ [][NextApply]_vars

\* The project configured on the selection apply_compiler_toolchain left.
NextBuild ==
    \/ apply_compiler_toolchain
    \/ RunStatement
    \/ StatementRaises
    \/ configure

SpecBuild == InitApply /\ [][NextBuild]_vars

\* A menu made by Menu(title), filled, indexed and selected from.
InitMenu ==
    /\ host_system = "kUbuntu"
    /\ architecture = "kx86_64"
    /\ conan_v2 = FALSE
    /\ folders = [toolchains |-> {}, profiles |-> {}]
    /\ parsed = NotParsed
    /\ links = [f \in PointerFiles |-> Absent]
    /\ op = "none"
    /\ pc = "idle"
    /\ step = 0
    /\ call = NoCall
    /\ outcome = "none"
    /\ failed_at = 0
    /\ previous = NoCall
    /\ locals = MenuLocals(Menu(<<"menu">>), FALSE)
    /\ query = NoQuery

NextMenu ==
    \/ call_add_item
    \/ call_add_submenu
    \/ call_add_separator
    \/ call_build_index_map
    \/ call_render
    \/ call_select

SpecMenu == InitMenu /\ [][NextMenu]_vars

\* XcodeFinder.find on any list of found bundles.
InitXcode ==
    /\ host_system = "kMacOS"
    /\ architecture = "kARM64"
    /\ conan_v2 = FALSE
    /\ folders = [toolchains |-> {}, profiles |-> {}]
    /\ parsed = NotParsed
    /\ links = [f \in PointerFiles |-> Absent]
    /\ op = "none"
    /\ pc = "idle"
    /\ step = 0
    /\ call = NoCall
    /\ outcome = "none"
    /\ failed_at = 0
    /\ previous = NoCall
    /\ locals = NoLocals
    /\ query \in {[found |-> l] : l \in FoundBundles}

NextXcode == call_find

SpecXcode == InitXcode /\ [][NextXcode]_vars

\* CMakeManager.get_all_installer_versions on any page of releases.
InitCMake ==
    /\ host_system = "kUbuntu"
    /\ architecture = "kx86_64"
    /\ conan_v2 = FALSE
    /\ folders = [toolchains |-> {}, profiles |-> {}]
    /\ parsed = NotParsed
    /\ links = [f \in PointerFiles |-> Absent]
    /\ op = "none"
    /\ pc = "idle"
    /\ step = 0
    /\ call = NoCall
    /\ outcome = "none"
    /\ failed_at = 0
    /\ previous = NoCall
    /\ locals = NoLocals
    /\ query \in {[page |-> l] : l \in PublishedPages}

NextCMake == call_get_all_installer_versions

SpecCMake == InitCMake /\ [][NextCMake]_vars

\* Toolchains installed from the command line on each host.
InitInstall ==
    /\ host_system \in {"kMacOS", "kUbuntu", "kWindows"}
    /\ architecture \in IF host_system = "kMacOS"
                        THEN {"kx86_64", "kARM64"} ELSE {"kx86_64"}
    /\ conan_v2 = FALSE
    /\ folders = [toolchains |-> {}, profiles |-> {}]
    /\ parsed = NotParsed
    /\ links = [f \in PointerFiles |-> Absent]
    /\ op = "none"
    /\ pc = "idle"
    /\ step = 0
    /\ call = NoCall
    /\ outcome = "none"
    /\ failed_at = 0
    /\ previous = NoCall
    /\ locals = NoLocals
    /\ query \in {[found |-> l] : l \in {m \in FoundBundles : Len(m) <= 1}}

NextInstall == ci_install_toolchain

SpecInstall == InitInstall /\ [][NextInstall]_vars

\* Descriptors constructed from filenames.
InitParse ==
    /\ host_system = "kUbuntu"
    /\ architecture = "kx86_64"
    /\ conan_v2 = FALSE
    /\ folders = [toolchains |-> {}, profiles |-> {}]
    /\ parsed \in {[filename |-> f] : f \in Filenames}
    /\ InitProgram

NextParse ==
    \/ construct_toolchain
    \/ construct_profile
    \/ call_compatible

SpecParse == InitParse /\ [][NextParse]_vars

\* Enum members, compilers and comparisons made from strings.
InitValues ==
    /\ host_system = "kUbuntu"
    /\ architecture = "kx86_64"
    /\ conan_v2 = FALSE
    /\ folders = [toolchains |-> {}, profiles |-> {}]
    /\ parsed \in {[class |-> c, value |-> v] : c \in EnumClassNames, v \in EnumStrings}
                  \cup {[description |-> d] : d \in CompilerDescriptions}
                  \cup {[left |-> l, right |-> r] :
                           l \in ComparedCompilers, r \in ComparedCompilers}
    /\ InitProgram

NextValues ==
    \/ construct_enum
    \/ construct_compiler
    \/ compare_compilers

SpecValues == InitValues /\ [][NextValues]_vars

\* Folders that are scanned: a toolchain with its two profiles; two files
\* of one identifier; a file that does not parse among files that do and
\* files of other kinds; files of two hosts; files of other kinds only;
\* nothing.
ScannedDirectories ==
    {CompleteDirectory,
     [toolchains |-> {NameClang \o CMakeSuffix, NameClang017 \o CMakeSuffix},
      profiles |-> {NameClang \o DebugProfileSuffix, NameClang017 \o DebugProfileSuffix,
                    NameClang \o ReleaseProfileSuffix}],
     [toolchains |-> {NameGCC \o CMakeSuffix, NameMacNoDash \o CMakeSuffix,
                      <<"README", ".", "md">>},
      profiles |-> {NameGCC \o DebugProfileSuffix, NameMacNoDash \o DebugProfileSuffix,
                    <<"notes", ".", "txt">>}],
     [toolchains |-> {NameGCC \o CMakeSuffix, NameMac \o CMakeSuffix},
      profiles |-> {NameGCC \o DebugProfileSuffix, NameMac \o ReleaseProfileSuffix,
                    NameGCC \o ReleaseProfileSuffix}],
     [toolchains |-> {<<"README", ".", "md">>, NameShort,
                      NameShort \o CMakeSuffix \o <<".", "bak">>},
      profiles |-> {<<"README", ".", "md">>, NameShort \o <<".", "txt">>}],
     [toolchains |-> {}, profiles |-> {}]}

\* The scans of a manager over its two folders.
InitFetch ==
    /\ \E m \in {[host |-> "kUbuntu", arch |-> "kx86_64"],
                 [host |-> "kMacOS", arch |-> "kARM64"]} :
          /\ host_system = m.host
          /\ architecture = m.arch
    /\ conan_v2 = FALSE
    /\ folders \in ScannedDirectories
    /\ parsed = NotParsed
    /\ InitProgram

NextFetch ==
    \/ call_fetch_all_compiler_toolchains
    \/ call_fetch_compatible_compiler_toolchains
    \/ call_fetch_compatible_compiler_toolchains_as_map
    \/ call_fetch_all_conan_profiles
    \/ call_fetch_compatible_conan_profiles
    \/ call_fetch_compatible_conan_profiles_as_map

SpecFetch == InitFetch /\ [][NextFetch]_vars

\* The toolchain identifiers of a selection put in order.
InitSort ==
    /\ host_system = "kUbuntu"
    /\ architecture = "kx86_64"
    /\ conan_v2 = FALSE
    /\ folders = [toolchains |-> {}, profiles |-> {}]
    /\ parsed \in {[keys |-> l] : l \in KeyLists(MaxListed)}
    /\ InitProgram

NextSort == sort_identifiers

SpecSort == InitSort /\ [][NextSort]_vars

\* -------------------------------------------------------------- properties
\* C1: once apply_compiler_toolchain has returned normally, each of the
\* five pointer files is a link to the file passed for its slot (the folder
\* of its kind joined with the filename; a host profile left out is its
\* build profile), and constructing a descriptor from each target's
\* filename gives back the descriptor that was passed.
C1_PointersLinkToPassedFiles ==
    (pc = "idle" /\ outcome = "ok" /\ op = "apply_compiler_toolchain") =>
        LET profiles_folder == IF conan_v2 THEN "Profiles2" ELSE "Profiles"
            hostDebug == IF call.host_profile_debug = None
                         THEN call.build_profile_debug
                         ELSE call.host_profile_debug
            hostRelease == IF call.host_profile_release = None
                           THEN call.build_profile_release
                           ELSE call.host_profile_release
        IN  /\ links[kCurrentToolchainFile]
                   = Path("Toolchains", call.toolchain.filename)
            /\ links[kCurrentConanBuildProfileDebug]
                   = Path(profiles_folder, call.build_profile_debug.filename)
            /\ links[kCurrentConanBuildProfileRelease]
                   = Path(profiles_folder, call.build_profile_release.filename)
            /\ links[kCurrentConanHostProfileDebug]
                   = Path(profiles_folder, hostDebug.filename)
            /\ links[kCurrentConanHostProfileRelease]
                   = Path(profiles_folder, hostRelease.filename)
            /\ Toolchain(links[kCurrentToolchainFile].filename) = call.toolchain
            /\ ConanProfile(links[kCurrentConanBuildProfileDebug].filename)
                   = call.build_profile_debug
            /\ ConanProfile(links[kCurrentConanBuildProfileRelease].filename)
                   = call.build_profile_release
            /\ ConanProfile(links[kCurrentConanHostProfileDebug].filename) = hostDebug
            /\ ConanProfile(links[kCurrentConanHostProfileRelease].filename)
                   = hostRelease

\* An apply of the GCC toolchain with the Clang host profiles has returned
\* normally over the pointers an earlier apply had left.
C1_Witness ==
    /\ pc = "idle" /\ outcome = "ok" /\ op = "apply_compiler_toolchain"
    /\ previous /= NoCall
    /\ call.toolchain.filename = NameGCC \o CMakeSuffix
    /\ call.host_profile_debug /= None
    /\ call.host_profile_release /= None
    /\ links[kCurrentConanHostProfileRelease].filename
           = NameClang \o ReleaseProfileSuffix

\* C2: when an apply that returned normally is followed by an apply of a
\* selection that differs from it in every slot, and that one returns
\* normally too, every pointer file refers to the file of the second
\* selection and none to a file of the first, however many applies came
\* before.
C2_SecondApplyReplacesEveryPointer ==
    (/\ pc = "idle" /\ outcome = "ok" /\ op = "apply_compiler_toolchain"
     /\ previous /= NoCall
     /\ \A f \in PointerFiles : Targets(previous)[f] /= Targets(call)[f]) =>
        \A f \in PointerFiles :
            /\ links[f] = Targets(call)[f]
            /\ links[f] /= Targets(previous)[f]

\* Two applies in a row have returned normally, the first of the GCC
\* selection and the second of the Clang selection.
C2_Witness ==
    /\ pc = "idle" /\ outcome = "ok" /\ op = "apply_compiler_toolchain"
    /\ previous /= NoCall
    /\ previous.toolchain.filename = NameGCC \o CMakeSuffix
    /\ previous.host_profile_debug = None
    /\ previous.host_profile_release = None
    /\ call.toolchain.filename = NameClang \o CMakeSuffix
    /\ \A f \in PointerFiles : Targets(previous)[f] /= Targets(call)[f]

\* C3, as claimed: once an apply_compiler_toolchain call has ended, normally
\* or with a filesystem error at one of its ten statements, it is not the
\* case that some pointer files refer to the new selection while others do
\* not.
C3_ApplyIsAtomic ==
    (/\ pc = "idle" /\ op = "apply_compiler_toolchain"
     /\ (outcome = "ok" \/ failed_at > 0)) =>
        ~ \E f, g \in PointerFiles :
              /\ links[f] = Targets(call)[f]
              /\ links[g] /= Targets(call)[g]

\* C3, amended: an apply that returns normally leaves all five pointer
\* files referring to the new selection.  One ended by a filesystem error
\* at a removal leaves the pointers before that one absent and that one in
\* place; one ended by a filesystem error at a link leaves the pointers
\* before that one referring to the new selection and that one and the later
\* ones absent.
C3_FailedApplyLeavesPrefix ==
    (/\ pc = "idle" /\ op = "apply_compiler_toolchain"
     /\ (outcome = "ok" \/ failed_at > 0)) =>
        /\ outcome = "ok" =>
              \A f \in PointerFiles : links[f] = Targets(call)[f]
        /\ failed_at \in 1..5 =>
              /\ \A k \in 1..(failed_at - 1) : links[PointerOrder[k]] = Absent
              /\ links[PointerOrder[failed_at]] /= Absent
        /\ failed_at \in 6..10 =>
              \A k \in 1..5 :
                  links[PointerOrder[k]] =
                      IF k < failed_at - 5 THEN Targets(call)[PointerOrder[k]]
                      ELSE Absent

\* An apply was ended by a filesystem error at its third link: two pointer
\* files refer to the new selection and three are absent.
C3_Witness ==
    /\ pc = "idle" /\ op = "apply_compiler_toolchain"
    /\ outcome \in FilesystemErrors
    /\ failed_at = 8
    /\ links[kCurrentToolchainFile] = Targets(call)[kCurrentToolchainFile]
    /\ links[kCurrentConanBuildProfileDebug]
           = Targets(call)[kCurrentConanBuildProfileDebug]
    /\ links[kCurrentConanBuildProfileRelease] = Absent
    /\ links[kCurrentConanHostProfileDebug] = Absent
    /\ links[kCurrentConanHostProfileRelease] = Absent

C5_HostProfilesDefaultSeparately ==
    (pc = "idle" /\ outcome = "ok" /\ op = "apply_compiler_toolchain") =>
        /\ links[kCurrentConanHostProfileDebug] =
               IF call.host_profile_debug = None
               THEN links[kCurrentConanBuildProfileDebug]
               ELSE Path(conan_profiles_folder_name, call.host_profile_debug.filename)
        /\ links[kCurrentConanHostProfileRelease] =
               IF call.host_profile_release = None
               THEN links[kCurrentConanBuildProfileRelease]
               ELSE Path(conan_profiles_folder_name,
                         call.host_profile_release.filename)

\* An apply with the Debug host profile alone has returned normally: the
\* Release host pointer took the build profile, the Debug one did not.
C5_Witness ==
    /\ pc = "idle" /\ outcome = "ok" /\ op = "apply_compiler_toolchain"
    /\ call.host_profile_debug /= None
    /\ call.host_profile_release = None
    /\ links[kCurrentConanHostProfileRelease] = links[kCurrentConanBuildProfileRelease]
    /\ links[kCurrentConanHostProfileDebug] /= links[kCurrentConanBuildProfileDebug]

\* C6, as claimed: whenever the profiles folder holds a Debug profile of a
\* compatible identifier and no Release profile of that identifier,
\* select_compiler_toolchain ends on its pairing assertion: it neither
\* reaches the prompt nor ends in another way.
C6_UnpairedDebugFailsPairing ==
    (/\ op = "select_compiler_toolchain"
     /\ \E profiles \in {{ConanProfile(f) : f \in folders.profiles}} :
           \E d \in profiles :
               /\ d.err = NoError
               /\ IsCompatible(d)
               /\ d.buildType = "kDebug"
               /\ ~ \E r \in profiles :
                       /\ r.err = NoError
                       /\ r.buildType = "kRelease"
                       /\ IdentifierEq(r.identifier, d.identifier)) =>
        /\ pc = "idle"
        /\ outcome = "AssertionError"

\* C7, as claimed: the identifier of a toolchain file and the identifier
\* of the profile file of the same name, constructed independently, are
\* equal, carry a standard library among their fields, hash without error
\* and to the same value, and a map of the profile under its identifier is
\* found under the toolchain's identifier.
C7_IdentifiersAreMapKeys ==
    (/\ "result" \in DOMAIN parsed
     /\ parsed.class = "Toolchain"
     /\ parsed.result.err = NoError) =>
        \E profile \in
            {ConanProfile(removesuffix(parsed.filename, splitext_ext(parsed.filename))
                              \o DebugProfileSuffix)} :
            /\ profile.err = NoError
            /\ IdentifierEq(parsed.result.identifier, profile.identifier)
            /\ IdentifierHash(parsed.result.identifier).err = NoError
            /\ IdentifierHash(parsed.result.identifier)
                   = IdentifierHash(profile.identifier)
            /\ \E map \in {DictOf(<<profile>>)} :
                   /\ map.err = NoError
                   /\ parsed.result.identifier \in DOMAIN map.dict
            /\ "standardLibrary" \in DOMAIN parsed.result.identifier

\* C8: compatible(host, arch) on an identifier is true exactly when the
\* identifier's host system is host and its architecture is arch, and the
\* identifier with any other compiler and installation source gives the
\* same answer.
C8_CompatibleIffHostAndArchitecture ==
    query /= NoQuery =>
        /\ query.result <=>
               /\ parsed.result.identifier.hostSystem = query.hostSystem
               /\ parsed.result.identifier.architecture = query.architecture
        /\ \A t \in DOMAIN CompilerTypeValues, v \in {0, 10, 17},
              s \in DOMAIN InstallationSourceValues :
               compatible([parsed.result.identifier EXCEPT
                               !.compiler = [compilerType |-> t, version |-> v],
                               !.installationSource = s],
                          query.hostSystem, query.architecture) = query.result

\* compatible was asked of an Ubuntu x86-64 identifier with its own host
\* and architecture and answered TRUE.
C8_Witness ==
    /\ query /= NoQuery
    /\ query.result = TRUE
    /\ query.hostSystem = "kUbuntu"
    /\ query.architecture = "kx86_64"
    /\ parsed.result.identifier.compiler = [compilerType |-> "kClang", version |-> 17]

\* C9, as claimed: a toolchain filename of 4 valid tokens (architecture,
\* compiler, host, source) or 5 (with the standard library third) is
\* constructed without error, the 4-token one with standard library
\* Default; and so is a profile filename of 5 or 6 valid tokens, the last
\* the build type.
C9_FourOrFiveTokensParse ==
    "result" \in DOMAIN parsed =>
        \E tokens \in {StemTokens(parsed.filename)} :
            LET n == Len(tokens) - (IF parsed.class = "Toolchain" THEN 0 ELSE 1)
                StandardLibraries == {<<"libstdc++">>, <<"libc++">>, <<"Default">>}
                valid ==
                    /\ n \in {4, 5}
                    /\ Architecture(tokens[1]) /= ValueError
                    /\ Compiler(tokens[2]).err = NoError
                    /\ n = 5 => tokens[3] \in StandardLibraries
                    /\ HostSystem(tokens[n - 1]) /= ValueError
                    /\ InstallationSource(tokens[n]) /= ValueError
                    /\ parsed.class = "ConanProfile" =>
                           BuildType(tokens[n + 1]) /= ValueError
            IN  valid =>
                    /\ parsed.result.err = NoError
                    /\ "standardLibrary" \in DOMAIN parsed.result.identifier
                    /\ n = 4 => parsed.result.identifier.standardLibrary = "kDefault"

\* C10: a toolchain filename whose stem has a number of "_"-separated
\* tokens other than 4 or 5, and a profile filename whose stem has a number
\* other than 5 or 6, is refused with ValueError, and no descriptor comes
\* of it.
C10_OtherTokenCountsFail ==
    "result" \in DOMAIN parsed =>
        LET count == Cardinality({i \in 1..Len(parsed.filename) :
                                     parsed.filename[i] = "_"}) + 1
            accepted == IF parsed.class = "Toolchain" THEN {4, 5} ELSE {5, 6}
        IN  count \notin accepted =>
                /\ parsed.result = [err |-> ValueError]
                /\ "identifier" \notin DOMAIN parsed.result

\* A toolchain filename of six tokens, the first four a valid identifier,
\* was refused.
C10_Witness ==
    /\ "result" \in DOMAIN parsed
    /\ parsed.class = "Toolchain"
    /\ parsed.filename = NameGCC \o <<"_", "Debug", "_", "Release">> \o CMakeSuffix
    /\ parsed.result.err = ValueError

\* C11, as claimed: each enum class constructs a member from exactly its
\* listed value strings and refuses every other string: Architecture
\* {x86-64, ARM32, ARM64}; CompilerType {GCC, Clang, AppleClang, MSVC};
\* StandardLibrary {libstdc++, libc++, Default}; HostSystem {macOS, Ubuntu,
\* Windows, FreeBSD}; InstallationSource {Homebrew, APT, Xcode, ARM,
\* VisualStudio}; BuildType {Debug, Release}.
C11_EnumsTakeExactlyTheirValues ==
    ("value" \in DOMAIN parsed /\ "result" \in DOMAIN parsed) =>
        LET listed ==
                [Architecture |-> {<<"x86", "-", "64">>, <<"ARM32">>, <<"ARM64">>},
                 CompilerType |-> {<<"GCC">>, <<"Clang">>, <<"AppleClang">>, <<"MSVC">>},
                 StandardLibrary |-> {<<"libstdc++">>, <<"libc++">>, <<"Default">>},
                 HostSystem |-> {<<"macOS">>, <<"Ubuntu">>, <<"Windows">>, <<"FreeBSD">>},
                 InstallationSource |-> {<<"Homebrew">>, <<"APT">>, <<"Xcode">>,
                                         <<"ARM">>, <<"VisualStudio">>},
                 BuildType |-> {<<"Debug">>, <<"Release">>}]
        IN  IF parsed.value \in listed[parsed.class]
            THEN parsed.result \notin {ValueError, NameError}
            ELSE parsed.result = ValueError

\* C12: Compiler(s) succeeds exactly when s holds one "-", a CompilerType
\* value before it and a decimal numeral after it, and then has that type
\* and that number as its version; every other s is refused with ValueError
\* and no compiler, whole or partial, comes of it.
C12_CompilerIsTypeDashVersion ==
    ("description" \in DOMAIN parsed /\ "result" \in DOMAIN parsed) =>
        LET s == parsed.description
            dashes == {i \in 1..Len(s) : s[i] = "-"}
            types == [GCC |-> "kGCC", Clang |-> "kClang",
                      AppleClang |-> "kAppleClang", MSVC |-> "kMSVC"]
            numerals == [n \in {"0", "1", "10", "17", "017"} |->
                            IF n = "0" THEN 0 ELSE IF n = "1" THEN 1
                            ELSE IF n = "10" THEN 10 ELSE 17]
        IN  IF /\ Cardinality(dashes) = 1
               /\ Len(s) = 3
               /\ s[2] = "-"
               /\ s[1] \in DOMAIN types
               /\ s[3] \in DOMAIN numerals
            THEN parsed.result = [err |-> NoError, compilerType |-> types[s[1]],
                                  version |-> numerals[s[3]]]
            ELSE parsed.result = [err |-> ValueError]

\* "Clang-17" was constructed as the compiler (Clang, 17).
C12_Witness ==
    /\ "description" \in DOMAIN parsed
    /\ "result" \in DOMAIN parsed
    /\ parsed.description = <<"Clang", "-", "17">>
    /\ parsed.result.err = NoError
    /\ parsed.result.compilerType = "kClang"
    /\ parsed.result.version = 17

\* C13, as claimed: a < b on compilers exactly when a's type is below b's,
\* or the types are equal and a's version is below b's; and of two
\* compilers that are not equal exactly one is below the other.
C13_CompilerOrderIsLexicographic ==
    ("left" \in DOMAIN parsed /\ "result" \in DOMAIN parsed) =>
        LET a == parsed.a
            b == parsed.b
            below(x, y) ==
                \/ CompilerTypeRank[x.compilerType] < CompilerTypeRank[y.compilerType]
                \/ /\ x.compilerType = y.compilerType
                   /\ x.version < y.version
        IN  /\ parsed.result.lt <=> below(a, b)
            /\ parsed.result.gt <=> below(b, a)
            /\ ~parsed.result.eq => (parsed.result.lt /= parsed.result.gt)

\* C14: when a file of the folder with the expected suffix (.cmake for the
\* toolchain scans, .conanprofile for the profile scans) does not parse,
\* fetch_all_*, fetch_compatible_* and fetch_compatible_*_as_map all raise
\* ValueError and give no list or map, whatever host the file names; when
\* all such files parse, fetch_all_* gives one descriptor per such file, in
\* listing order; and the files of other names change no answer.
C14_ScansFailFast ==
    (query /= NoQuery /\ "function" \in DOMAIN query) =>
        LET toolchains ==
                query.function \in {"fetch_all_compiler_toolchains",
                                    "fetch_compatible_compiler_toolchains",
                                    "fetch_compatible_compiler_toolchains_as_map"}
            suffix == IF toolchains THEN CMakeSuffix ELSE ProfileSuffix
            expected == {i \in 1..Len(query.listing) :
                            endswith(query.listing[i], suffix)}
            broken ==
                \E i \in expected :
                    IF toolchains THEN Toolchain(query.listing[i]).err /= NoError
                    ELSE ConanProfile(query.listing[i]).err /= NoError
            others == {query.listing[i] : i \in (1..Len(query.listing)) \ expected}
            without == CHOOSE l \in Listings({query.listing[i] : i \in expected}) :
                           \A i, j \in expected :
                               i < j => \E m, n \in 1..Len(l) :
                                            /\ m < n
                                            /\ l[m] = query.listing[i]
                                            /\ l[n] = query.listing[j]
            again ==
                CASE query.function = "fetch_all_compiler_toolchains" ->
                         fetch_all_compiler_toolchains(without)
                  [] query.function = "fetch_compatible_compiler_toolchains" ->
                         fetch_compatible_compiler_toolchains(without)
                  [] query.function = "fetch_compatible_compiler_toolchains_as_map" ->
                         fetch_compatible_compiler_toolchains_as_map(without)
                  [] query.function = "fetch_all_conan_profiles" ->
                         fetch_all_conan_profiles(without)
                  [] query.function = "fetch_compatible_conan_profiles" ->
                         fetch_compatible_conan_profiles(without)
                  [] OTHER -> fetch_compatible_conan_profiles_as_map(without)
        IN  /\ broken => query.result = [err |-> ValueError]
            /\ (~broken /\ query.function \in {"fetch_all_compiler_toolchains",
                                               "fetch_all_conan_profiles"}) =>
                   /\ query.result.err = NoError
                   /\ Len(query.result.list) = Cardinality(expected)
                   /\ \A i \in expected :
                          query.result.list[Cardinality({j \in expected : j <= i})]
                              .filename = query.listing[i]
            /\ others /= {} => query.result = again

\* A scan for compatible toolchains by the Ubuntu manager, of a folder
\* holding a toolchain of its own, a macOS toolchain that does not parse
\* and a file of another kind, ended in ValueError.
C14_Witness ==
    /\ query /= NoQuery
    /\ "function" \in DOMAIN query
    /\ query.function = "fetch_compatible_compiler_toolchains"
    /\ host_system = "kUbuntu"
    /\ query.listing = <<NameGCC \o CMakeSuffix, <<"README", ".", "md">>,
                         NameMacNoDash \o CMakeSuffix>>
    /\ query.result = [err |-> ValueError]

\* C15, as claimed: over a folder whose descriptor files all parse, the
\* toolchain map and the two profile maps are returned without error; their
\* keys are exactly the identifiers of the files compatible with the
\* manager's host and architecture (none for a manager of another host);
\* each key maps to a descriptor of that identifier; the debug map holds
\* Debug profiles only and the release map Release profiles only.
C15_MapsHoldCompatibleIdentifiers ==
    (/\ query /= NoQuery
     /\ "function" \in DOMAIN query
     /\ query.function \in {"fetch_compatible_compiler_toolchains_as_map",
                            "fetch_compatible_conan_profiles_as_map"}) =>
        LET toolchains ==
                query.function = "fetch_compatible_compiler_toolchains_as_map"
            files == {query.listing[i] : i \in 1..Len(query.listing)}
            descriptors ==
                IF toolchains
                THEN {Toolchain(f) : f \in {g \in files : IsCMakeFile(g)}}
                ELSE {ConanProfile(f) : f \in {g \in files : IsProfileFile(g)}}
            wanted(kind) ==
                {d.identifier : d \in
                    {e \in descriptors :
                        /\ e.identifier.hostSystem = host_system
                        /\ e.identifier.architecture = architecture
                        /\ kind /= "any" => e.buildType = kind}}
            holds(map, kind) ==
                /\ map.err = NoError
                /\ DOMAIN map.dict = wanted(kind)
                /\ \A k \in DOMAIN map.dict :
                       /\ map.dict[k].identifier = k
                       /\ kind /= "any" => map.dict[k].buildType = kind
        IN  (\A d \in descriptors : d.err = NoError) =>
                /\ query.result.err = NoError
                /\ IF toolchains THEN holds(query.result, "any")
                   ELSE /\ holds(query.result.pmap_dbg, "kDebug")
                        /\ holds(query.result.pmap_rel, "kRelease")

\* C16, as claimed: when two files of the toolchains folder that the
\* manager is compatible with decode to one identifier, the toolchain map
\* is returned without error and holds, under that identifier, the file
\* that comes last in the listing.
C16_LastEnumeratedFileWins ==
    (/\ query /= NoQuery
     /\ "function" \in DOMAIN query
     /\ query.function = "fetch_compatible_compiler_toolchains_as_map") =>
        \A i, j \in 1..Len(query.listing) :
            \E a \in {Toolchain(query.listing[i])}, b \in {Toolchain(query.listing[j])} :
                (/\ i < j
                 /\ IsCMakeFile(query.listing[i])
                 /\ IsCMakeFile(query.listing[j])
                 /\ a.err = NoError
                 /\ b.err = NoError
                 /\ IsCompatible(a)
                 /\ a.identifier = b.identifier) =>
                    /\ query.result.err = NoError
                    /\ Len(query.result.keys) = 1
                    /\ query.result.dict[b.identifier].filename = query.listing[j]

C18_InputErrorIsCaughtAtThePrompt ==
    (op = "select_compiler_toolchain" /\ pc = "idle") =>
        outcome \notin {"EOFError", "KeyboardInterrupt"}

\* C19, as claimed: the identifiers listed for selection are the same
\* sequence in whichever order the folder's files (and so the map's keys)
\* were enumerated, and of two listed identifiers that differ in compiler
\* only, the one with the lower type, or with the same type and the lower
\* version, comes first.
C19_ListingIsSortedByIdentifier ==
    ("keys" \in DOMAIN parsed /\ "identifiers" \in DOMAIN parsed) =>
        /\ \A order \in Listings({parsed.keys[i] : i \in 1..Len(parsed.keys)}) :
               sorted(order) = parsed.identifiers
        /\ \A i, j \in 1..Len(parsed.identifiers) :
               LET a == parsed.identifiers[i]
                   b == parsed.identifiers[j]
               IN  (/\ i < j
                    /\ a.architecture = b.architecture
                    /\ a.hostSystem = b.hostSystem
                    /\ a.installationSource = b.installationSource) =>
                       \/ CompilerTypeRank[a.compiler.compilerType]
                              < CompilerTypeRank[b.compiler.compilerType]
                       \/ /\ a.compiler.compilerType = b.compiler.compilerType
                          /\ a.compiler.version < b.compiler.version

\* C20, as claimed: when ci_select_toolchain has parsed its names and
\* called apply, and the toolchains folder lacks the toolchain file or the
\* profiles folder lacks one of the profile files passed, the selection
\* does not complete as a success: ci_entry_point does not return 0.
C20_MissingFilesFailTheCISelection ==
    (/\ op = "ci_select_toolchain"
     /\ pc = "idle"
     /\ outcome = "ok" \/ failed_at > 0
     /\ \/ call.toolchain.filename \notin folders.toolchains
        \/ call.build_profile_debug.filename \notin folders.profiles
        \/ call.build_profile_release.filename \notin folders.profiles) =>
        ci_entry_point /= [returns |-> 0]

\* C21, as claimed: the five pointer files are absent before any operation
\* has run; a pointer file comes into being only in a statement of apply
\* and goes away only in a statement of apply or of clean_all; an apply that
\* returns normally leaves all five present and a clean_all that returns
\* normally leaves all five absent; and an apply that began on the
\* selection of a successful apply never ends, normally or not, with all
\* five absent.
C21_OnlyCleanAllUnselects ==
    [][/\ op = "none" => \A f \in PointerFiles : links[f] = Absent
       /\ \A f \in PointerFiles :
              (links[f] = Absent /\ links'[f] /= Absent) =>
                  (pc = "run" /\ op \in ApplyOps)
       /\ \A f \in PointerFiles :
              (links[f] /= Absent /\ links'[f] = Absent) =>
                  (pc = "run" /\ op \in ApplyOps \cup {"clean_all"})
       /\ (pc' = "idle" /\ op' \in ApplyOps /\ outcome' = "ok") =>
              \A f \in PointerFiles : links'[f] /= Absent
       /\ (pc' = "idle" /\ op' = "clean_all" /\ outcome' = "ok") =>
              \A f \in PointerFiles : links'[f] = Absent
       /\ (/\ pc' = "idle" /\ op' \in ApplyOps
           /\ (outcome' = "ok" \/ failed_at' > 0)
           /\ previous' /= NoCall) =>
              \E f \in PointerFiles : links'[f] /= Absent]_vars

\* C21, amended: as C21_OnlyCleanAllUnselects, but an apply that began on
\* the selection of a successful apply does end with all five pointer files
\* absent in one case: when it has removed the five and a filesystem error
\* ends it at its first link.
C21_CleanAllOrFailedApplyUnselects ==
    [][/\ op = "none" => \A f \in PointerFiles : links[f] = Absent
       /\ \A f \in PointerFiles :
              (links[f] = Absent /\ links'[f] /= Absent) =>
                  (pc = "run" /\ op \in ApplyOps)
       /\ \A f \in PointerFiles :
              (links[f] /= Absent /\ links'[f] = Absent) =>
                  (pc = "run" /\ op \in ApplyOps \cup {"clean_all"})
       /\ (pc' = "idle" /\ op' \in ApplyOps /\ outcome' = "ok") =>
              \A f \in PointerFiles : links'[f] /= Absent
       /\ (pc' = "idle" /\ op' = "clean_all" /\ outcome' = "ok") =>
              \A f \in PointerFiles : links'[f] = Absent
       /\ (/\ pc' = "idle" /\ op' \in ApplyOps
           /\ (outcome' = "ok" \/ failed_at' > 0)
           /\ previous' /= NoCall) =>
              ((\A f \in PointerFiles : links'[f] = Absent) <=>
                  (failed_at' = 6 /\ outcome' \in FilesystemErrors))]_vars

\* A CI selection made on the selection of a successful apply was ended by
\* a filesystem error at its first link: all five pointer files are absent.
C21_Witness ==
    /\ pc = "idle"
    /\ op = "ci_select_toolchain"
    /\ previous /= NoCall
    /\ failed_at = 6
    /\ outcome \in FilesystemErrors
    /\ \A f \in PointerFiles : links[f] = Absent

\* C22, as claimed: when select_compiler_toolchain is called over folders
\* whose descriptor files all parse and whose compatible toolchains, Debug
\* profiles and Release profiles are not equally many identifiers, the call
\* ends in AssertionError without reaching the prompt, and the five pointer
\* files are as they were.
C22_UnequalCatalogsFailTheAssertion ==
    [][(pc = "idle" /\ op' = "select_compiler_toolchain") =>
          \E toolchains \in {{Toolchain(f) :
                                f \in {g \in folders.toolchains : IsCMakeFile(g)}}},
             profiles \in {{ConanProfile(f) :
                              f \in {g \in folders.profiles : IsProfileFile(g)}}} :
              LET size(descriptors, kind) ==
                      Cardinality({d.identifier : d \in
                          {e \in descriptors :
                              /\ IsCompatible(e)
                              /\ kind /= "any" => e.buildType = kind}})
              IN  (/\ \A d \in toolchains \cup profiles : d.err = NoError
                   /\ \/ size(toolchains, "any") /= size(profiles, "kDebug")
                      \/ size(toolchains, "any") /= size(profiles, "kRelease")) =>
                      /\ pc' = "idle"
                      /\ outcome' = "AssertionError"
                      /\ links' = links]_vars

\* C23: a call of ci_select_toolchain either raises ValueError with every
\* pointer file as it was, upon which ci_entry_point returns -1, or enters
\* apply_compiler_toolchain; and it enters apply only with names that are
\* well formed: four "_"-separated tokens, an architecture, a compiler
\* type-dash-number, a host system and an installation source.  A build or
\* host name of another token count or with an unknown token is therefore
\* refused before any pointer file is removed or created.
C23_CIParsesBeforeItTouchesFiles ==
    [][(pc = "idle" /\ op' = "ci_select_toolchain") =>
          LET wellformed(name) ==
                  \E tokens \in {split(name, "_")} :
                      /\ Len(tokens) = 4
                      /\ tokens[1] \in {<<"x86", "-", "64">>, <<"ARM32">>, <<"ARM64">>}
                      /\ Len(tokens[2]) = 3
                      /\ tokens[2][1] \in {"GCC", "Clang", "AppleClang", "MSVC"}
                      /\ tokens[2][2] = "-"
                      /\ tokens[2][3] \in DOMAIN DecimalWords
                      /\ tokens[3] \in {<<"macOS">>, <<"Ubuntu">>, <<"Windows">>}
                      /\ tokens[4] \in {<<"Homebrew">>, <<"APT">>, <<"Xcode">>,
                                        <<"ARM">>, <<"VisualStudio">>}
          IN  IF "build_name" \in DOMAIN call'
              THEN /\ \/ ~wellformed(call'.build_name)
                      \/ call'.host /= None /\ ~wellformed(call'.host.name)
                   /\ links' = links
                   /\ pc' = "idle"
                   /\ outcome' = ValueError
                   /\ ci_entry_point' = [returns |-> -1]
              ELSE /\ pc' = "run"
                   /\ links' = links
                   /\ wellformed(removesuffix(call'.toolchain.filename, CMakeSuffix))
                   /\ call'.host_profile_debug /= None =>
                          wellformed(removesuffix(call'.host_profile_debug.filename,
                                                  DebugProfileSuffix))
                   /\ call'.host_profile_release /= None =>
                          wellformed(removesuffix(call'.host_profile_release.filename,
                                                  ReleaseProfileSuffix))]_vars

\* A CI selection whose build name has an unknown compiler type was refused
\* with ValueError while the toolchain pointer of an earlier selection is
\* still in place.
C23_Witness ==
    /\ op = "ci_select_toolchain"
    /\ pc = "idle"
    /\ outcome = ValueError
    /\ "build_name" \in DOMAIN call
    /\ call.build_name = NameLowercase
    /\ links[kCurrentToolchainFile] /= Absent
    /\ ci_entry_point = [returns |-> -1]

\* C24: in every state, during an apply, after one, after a failed one, the
\* pointer files that exist are pointers of one selection: there is one
\* call of apply_compiler_toolchain whose links they all are.
C24_PointersOfOneSelection ==
    \E c \in ApplyArguments :
        \A f \in PointerFiles : links[f] /= Absent => links[f] = Targets(c)[f]

\* An apply on the selection of another toolchain has removed the five
\* pointers and made its first two links; the other three are absent.
C24_Witness ==
    /\ pc = "run"
    /\ op = "apply_compiler_toolchain"
    /\ step = 8
    /\ previous /= NoCall
    /\ \A f \in PointerFiles : Targets(previous)[f] /= Targets(call)[f]
    /\ links[kCurrentToolchainFile] = Targets(call)[kCurrentToolchainFile]
    /\ links[kCurrentConanBuildProfileDebug]
           = Targets(call)[kCurrentConanBuildProfileDebug]
    /\ links[kCurrentConanHostProfileRelease] = Absent

\* C25: whether the pointer files in place refer to files that exist or
\* dangle, each link of an apply is made on a name that is absent, and no
\* operation ends in FileExistsError: an apply made on top of a selection
\* whose files are gone goes through like any other.
C25_LinksAreMadeOnFreeNames ==
    /\ outcome /= "FileExistsError"
    /\ (pc = "run" /\ Statements[step].do = "symlink") =>
           links[Statements[step].file] = Absent

\* A CI selection returned normally on top of a successful selection all
\* of whose pointers dangled: the folders hold none of the files it named.
C25_Witness ==
    /\ op = "ci_select_toolchain"
    /\ pc = "idle"
    /\ outcome = "ok"
    /\ previous /= NoCall
    /\ folders.toolchains /= {}
    /\ previous.toolchain.filename \notin folders.toolchains
    /\ previous.build_profile_debug.filename \notin folders.profiles
    /\ previous.build_profile_release.filename \notin folders.profiles
    /\ \A f \in PointerFiles : links[f] = Targets(call)[f]

\* C26: with Conan 1.x, configure ends in the ValueError of the two
\* separated profiles only when the host pointer of its build type refers
\* to another profile than the build pointer; after a native apply it goes
\* on to conan install.
C26_NativeSelectionConfiguresUnderConan1 ==
    (/\ op = "configure"
     /\ ~conan_v2
     /\ call /= NoCall
     /\ \A f \in PointerFiles : links[f] = Targets(call)[f])
    => /\ outcome = "ValueError" =>
              IF locals.build_type = "kDebug"
              THEN links[kCurrentConanHostProfileDebug]
                       /= links[kCurrentConanBuildProfileDebug]
              ELSE links[kCurrentConanHostProfileRelease]
                       /= links[kCurrentConanBuildProfileRelease]
       /\ (/\ call.host_profile_debug = None
           /\ call.host_profile_release = None) => locals.conan /= NotRun

C28_FindReturnsTheLatestRelease ==
    ("result" \in DOMAIN query /\ query.patch = None) =>
        LET matching ==
                {b \in {query.found[i] : i \in DOMAIN query.found} :
                    /\ b.major = query.major
                    /\ query.minor /= None => b.minor = query.minor.is}
        IN  /\ query.result = None <=> matching = {}
            /\ query.result /= None =>
                  /\ query.result \in matching
                  /\ \A b \in matching :
                        \/ b.minor < query.result.minor
                        \/ /\ b.minor = query.result.minor
                           /\ b.patch <= query.result.patch

\* C29: get_all_installer_versions(min_major, min_minor) returns, in
\* ascending order, exactly the published versions that are at least
\* (min_major, min_minor) as versions; a version of a larger major is among
\* them whatever its minor.
C29_VersionsAtLeastTheMinimum ==
    "versions" \in DOMAIN query =>
        LET minimum == <<query.min_major, query.min_minor>>
            returned == {query.versions[i] : i \in DOMAIN query.versions}
        IN  /\ returned = {v \in {query.page[i] : i \in DOMAIN query.page} :
                              ~pair_lt(v, minimum)}
            /\ \A i, j \in DOMAIN query.versions :
                  i < j => pair_lt(query.versions[i], query.versions[j])

\* C30: ci_install_toolchain calls the install method of the case for each
\* of the nineteen names and raises KeyError for any other name, and
\* ci_entry_point returns 0 when the call returned and -1 when it did not.
C30_InstallReturnsZeroOrMinusOne ==
    op = "ci_install_toolchain" =>
        /\ call.method = None <=> outcome = "KeyError"
        /\ call.method /= None => call.method.attr \in ManagerMethods
        /\ ci_entry_point = IF outcome = "ok" THEN [returns |-> 0]
                            ELSE [returns |-> -1]

====
